---------------------------- MODULE Spec2Model ----------------------------
(***************************************************************************)
(* Privax: a privacy pool.                                                 *)
(*                                                                         *)
(*  - MerkleTree (circuits/utils/merkleTree.ts): the off-chain commitment  *)
(*    tree, with insert, generateProof and getRoot.                        *)
(*  - Withdraw (circuits/circuits/withdraw.circom): the Merkle fold of the *)
(*    withdraw predicate.                                                  *)
(*  - PrivaxProtocol and MockVerifier (evm-contracts): the ledger.         *)
(*  - The reference flow (circuits/index.js): deposit,                     *)
(*    generateWithdrawalProof and withdraw over the tree of merkleTree.js. *)
(*                                                                         *)
(* Six specifications share the module: Spec runs the ledger contract,     *)
(* TreeSpec the Merkle tree, FlowSpec the reference flow, NoteSpec the     *)
(* flow's note creation on its own, ConcSpec the deposit calls of several  *)
(* callers interleaved at their awaits and ProofSpec a                     *)
(* generateWithdrawalProof call interleaved with deposits.                 *)
(***************************************************************************)
EXTENDS Integers, Sequences, FiniteSets

VARIABLES
    merkleTree,            \* the MerkleTree object: levels, capacity, leaves, filled
    treeLast,              \* the last call on the tree and what it returned or threw
    admin,                 \* PrivaxProtocol.admin
    whitelistedRelayers,   \* PrivaxProtocol.whitelistedRelayers
    balances,              \* the ERC20 token's balance of every account
    tokenFee,              \* what the ERC20 token keeps of every transfer (0: standard)
    verificationResult,    \* MockVerifier._verificationResult
    events,                \* the events the ledger has emitted, in order
    lastCall,              \* the last ledger transaction that was not reverted
    deposits,              \* reference flow: the deposits object, keyed by commitment
    spentNullifiers,       \* reference flow: the set of spent nullifier hashes
    calls,                 \* reference flow: the withdraw calls in flight
    returned,              \* reference flow: how often withdraw returned, per nullifier hash
    flowLast,              \* reference flow: the last call that settled and its outcome
    depositing,            \* reference flow: the deposit calls in flight
    proving                \* reference flow: the generateWithdrawalProof call in flight

treeVars == <<merkleTree, treeLast>>
ledgerVars == <<admin, whitelistedRelayers, balances, tokenFee, verificationResult,
                events, lastCall>>
concVars == <<depositing, proving>>
flowVars == <<deposits, spentNullifiers, calls, returned, flowLast, concVars>>
vars == <<merkleTree, treeLast, admin, whitelistedRelayers, balances, tokenFee,
          verificationResult, events, lastCall, deposits, spentNullifiers, calls,
          returned, flowLast, depositing, proving>>

---------------------------------------------------------------------------
(* Bounds of the model *)

\* Depth of the modelled tree (the repository builds MerkleTree(20)).
Depth == 2
\* Largest token amount a call may name.
MaxAmount == 2
\* Largest value offered to the predicate as a direction bit.
MaxBit == 2
\* Longest event log the ledger is run to.
MaxEvents == 4
\* Width of an address in bits (160 on the EVM).
AddrBits == 3
\* Largest fee a non-standard token may keep on a transfer.
TokenMaxFee == 1

---------------------------------------------------------------------------
(* Field elements, strings and the Poseidon hash *)

\* A field element given by a small number.
Fe(n) == <<n>>

\* BigInt.toString / F.toString: the decimal string of a field element.
ToString(v) == [dec |-> v]

\* toField: BigInt(num) of a decimal string.
toField(s) == s.dec

\* poseidon(inputs): the hash of a tuple of field elements, a term that is
\* equal to another only when the inputs are equal (collision-free).
Poseidon(inputs) == inputs

\* poseidonHash(inputs): hash of the parsed inputs, as a decimal string.
poseidonHash(inputs) ==
    ToString(Poseidon([k \in DOMAIN inputs |-> toField(inputs[k])]))

\* generateCommitment with the amount and the secret hashed in the other order.
generateCommitment_swapped(amount, secret, nullifierSecret) ==
    poseidonHash(<<secret, amount, nullifierSecret>>)

\* generateCommitment(amount, secret, nullifierSecret)
generateCommitment(amount, secret, nullifierSecret) ==
    poseidonHash(<<amount, secret, nullifierSecret>>)

\* generateNullifierHash(nullifierSecret)
generateNullifierHash(nullifierSecret) ==
    poseidonHash(<<nullifierSecret, ToString(Fe(1))>>)

---------------------------------------------------------------------------
(* MerkleTree *)

RECURSIVE calculateZeros(_)
\* _calculateZeros: zeros[0] = 0, zeros[i] = H(zeros[i-1], zeros[i-1]).
calculateZeros(i) ==
    IF i = 0 THEN Fe(0)
    ELSE toField(poseidonHash(<<ToString(calculateZeros(i - 1)),
                                ToString(calculateZeros(i - 1))>>))

\* new MerkleTree(levels)
NewMerkleTree(levels) ==
    [levels   |-> levels,
     capacity |-> 2 ^ levels,
     leaves   |-> [i \in 0 .. (2 ^ levels - 1) |-> Fe(0)],
     filled   |-> 0]

\* insert with the capacity check compared the wrong way round (> for >=).
insert_offByOne(t, commitment) ==
    IF t.filled > t.capacity
    THEN [ok |-> FALSE, err |-> "Tree is full", tree |-> t]
    ELSE [ok |-> TRUE, result |-> t.filled,
          tree |-> [t EXCEPT !.leaves = IF t.filled \in DOMAIN t.leaves
                                        THEN [t.leaves EXCEPT ![t.filled] = toField(commitment)]
                                        ELSE t.leaves,
                             !.filled = t.filled + 1]]

\* insert that stores the commitment one slot below the fill pointer.
insert_slotBelow(t, commitment) ==
    IF t.filled >= t.capacity
    THEN [ok |-> FALSE, err |-> "Tree is full", tree |-> t]
    ELSE LET pos == IF t.filled = 0 THEN 0 ELSE t.filled - 1
         IN  [ok |-> TRUE, result |-> t.filled,
              tree |-> [t EXCEPT !.leaves = [t.leaves EXCEPT ![pos] = toField(commitment)],
                                 !.filled = t.filled + 1]]

\* insert(commitment): the outcome and the tree after the call.
insert(t, commitment) ==
    IF t.filled >= t.capacity
    THEN [ok |-> FALSE, err |-> "Tree is full", tree |-> t]
    ELSE [ok |-> TRUE, result |-> t.filled,
          tree |-> [t EXCEPT !.leaves = [t.leaves EXCEPT ![t.filled] = toField(commitment)],
                             !.filled = t.filled + 1]]

RECURSIVE proofLoop(_, _, _, _, _)
\* The loop of generateProof, from level i on.
proofLoop(t, i, currentIndex, pathElements, pathIndices) ==
    IF i >= t.levels
    THEN [pathElements |-> pathElements, pathIndices |-> pathIndices]
    ELSE LET isRight == currentIndex % 2
             siblingIndex == IF isRight # 0 THEN currentIndex - 1 ELSE currentIndex + 1
             sibling == IF siblingIndex < t.filled
                        THEN t.leaves[siblingIndex]
                        ELSE calculateZeros(i)
         IN  proofLoop(t, i + 1, currentIndex \div 2,
                       Append(pathElements, ToString(sibling)),
                       Append(pathIndices, IF isRight # 0 THEN 0 ELSE 1))

\* generateProof(index)
generateProof(t, index) ==
    IF index >= t.filled
    THEN [ok |-> FALSE, err |-> "Leaf does not exist"]
    ELSE [ok |-> TRUE, result |-> proofLoop(t, 0, index, <<>>, <<>>)]

RECURSIVE rootInnerLoop(_, _, _, _, _)
\* The inner loop of getRoot at one level: hashes[i] for i = i .. n-1, in place.
rootInnerLoop(t, hashes, level, i, n) ==
    IF i >= n
    THEN hashes
    ELSE LET left  == IF i * 2 < t.filled THEN hashes[i * 2] ELSE calculateZeros(level)
             right == IF i * 2 + 1 < t.filled THEN hashes[i * 2 + 1] ELSE calculateZeros(level)
         IN  rootInnerLoop(t,
                 [hashes EXCEPT ![i] = toField(poseidonHash(<<ToString(left), ToString(right)>>))],
                 level, i + 1, n)

RECURSIVE rootLevelLoop(_, _, _)
\* The outer loop of getRoot, from `level` on.
rootLevelLoop(t, hashes, level) ==
    IF level >= t.levels
    THEN hashes
    ELSE LET levelSize == t.capacity \div (2 ^ level)
             nextLevelSize == levelSize \div 2
         IN  rootLevelLoop(t, rootInnerLoop(t, hashes, level, 0, nextLevelSize), level + 1)

\* getRoot(): the root as a decimal string.
getRoot(t) ==
    IF t.filled = 0
    THEN ToString(calculateZeros(t.levels))
    ELSE ToString(rootLevelLoop(t, t.leaves, 0)[0])

---------------------------------------------------------------------------
(* MerkleTree of circuits/utils/merkleTree.js; its constructor and its      *)
(* insert are those of the TypeScript class.                               *)

\* The JavaScript value undefined.
undefined == [defined |-> FALSE]

\* A bigint read from an array slot, as opposed to undefined.
Value(v) == [defined |-> TRUE, value |-> v]

\* The error of calling a method of undefined.
TypeError == "TypeError: Cannot read properties of undefined (reading 'toString')"

\* this.zeros[i]: this.zeros is the Promise _calculateZeros() returned, never
\* awaited and never replaced, and a Promise has no indexed property.
zerosJs(i) == undefined

RECURSIVE proofLoopJs(_, _, _, _, _)
\* The loop of generateProof, from level i on; sibling.toString() throws when
\* the sibling is undefined.
proofLoopJs(t, i, currentIndex, pathElements, pathIndices) ==
    IF i >= t.levels
    THEN [ok |-> TRUE,
          result |-> [pathElements |-> pathElements, pathIndices |-> pathIndices]]
    ELSE LET isRight == currentIndex % 2
             siblingIndex == IF isRight # 0 THEN currentIndex - 1 ELSE currentIndex + 1
             sibling == IF siblingIndex < t.filled
                        THEN Value(t.leaves[siblingIndex])
                        ELSE zerosJs(i)
         IN  IF sibling = undefined
             THEN [ok |-> FALSE, err |-> TypeError]
             ELSE proofLoopJs(t, i + 1, currentIndex \div 2,
                              Append(pathElements, ToString(sibling.value)),
                              Append(pathIndices, IF isRight # 0 THEN 0 ELSE 1))

\* generateProof(index)
generateProofJs(t, index) ==
    IF index >= t.filled
    THEN [ok |-> FALSE, err |-> "Leaf does not exist"]
    ELSE proofLoopJs(t, 0, index, <<>>, <<>>)

RECURSIVE rootInnerLoopJs(_, _, _, _, _)
\* The inner loop of getRoot at one level; left.toString() and
\* right.toString() throw when the value is undefined.
rootInnerLoopJs(t, hashes, level, i, n) ==
    IF i >= n
    THEN [ok |-> TRUE, hashes |-> hashes]
    ELSE LET left  == IF i * 2 < t.filled THEN Value(hashes[i * 2]) ELSE zerosJs(level)
             right == IF i * 2 + 1 < t.filled
                      THEN Value(hashes[i * 2 + 1])
                      ELSE zerosJs(level)
         IN  IF left = undefined \/ right = undefined
             THEN [ok |-> FALSE, err |-> TypeError]
             ELSE rootInnerLoopJs(t,
                      [hashes EXCEPT ![i] =
                           toField(poseidonHash(<<ToString(left.value),
                                                  ToString(right.value)>>))],
                      level, i + 1, n)

RECURSIVE rootLevelLoopJs(_, _, _)
\* The outer loop of getRoot, from `level` on.
rootLevelLoopJs(t, hashes, level) ==
    IF level >= t.levels
    THEN [ok |-> TRUE, hashes |-> hashes]
    ELSE LET levelSize == t.capacity \div (2 ^ level)
             nextLevelSize == levelSize \div 2
             r == rootInnerLoopJs(t, hashes, level, 0, nextLevelSize)
         IN  IF r.ok THEN rootLevelLoopJs(t, r.hashes, level + 1) ELSE r

\* getRoot(): what it returns or throws.
getRootJs(t) ==
    IF t.filled = 0
    THEN [ok |-> TRUE, result |-> zerosJs(t.levels)]
    ELSE LET r == rootLevelLoopJs(t, t.leaves, 0)
         IN  IF r.ok THEN [ok |-> TRUE, result |-> ToString(r.hashes[0])] ELSE r

---------------------------------------------------------------------------
(* The Merkle fold of the withdraw predicate (withdraw.circom) *)

\* commitmentHasher: Poseidon(3) of amount, secret and nullifierSecret.
commitmentHasher(amount, secret, nullifierSecret) ==
    Poseidon(<<amount, secret, nullifierSecret>>)

\* nullifierHasher: Poseidon(2) of nullifierSecret and the domain separator 1.
nullifierHasher(nullifierSecret) == Poseidon(<<nullifierSecret, Fe(1)>>)

\* nullifierHash === calculatedNullifierHash
NullifierConstraint(nullifierHash, nullifierSecret) ==
    nullifierHash = nullifierHasher(nullifierSecret)

\* pathIndices[i] * (pathIndices[i] - 1) === 0 with the check left out.
BinaryConstraint_unchecked(b) == TRUE

\* pathIndices[i] * (pathIndices[i] - 1) === 0
BinaryConstraint(b) == b * (b - 1) = 0

\* x * u + y * v over the field for coefficients with x + y = 1, as the
\* inputs of merkleLevelHasher are formed: u for (1, 0), v for (0, 1), the
\* common value when u = v, and otherwise a field element of its own.
LinearCombination(x, u, y, v) ==
    IF x = 1 /\ y = 0 THEN u
    ELSE IF x = 0 /\ y = 1 THEN v
    ELSE IF u = v THEN u
    ELSE <<Fe(x), u, Fe(y), v>>

RECURSIVE currentHashes(_, _, _, _)
\* currentHashes[i]: the leaf folded up i levels, with
\* leftInput = (1 - b) * cur + b * elem and rightInput = b * cur + (1 - b) * elem.
currentHashes(i, calculatedCommitment, pathElements, pathIndices) ==
    IF i = 0
    THEN calculatedCommitment
    ELSE LET cur  == currentHashes(i - 1, calculatedCommitment, pathElements, pathIndices)
             b    == pathIndices[i]
             elem == pathElements[i]
             leftInput  == LinearCombination(1 - b, cur, b, elem)
             rightInput == LinearCombination(b, cur, 1 - b, elem)
         IN  Poseidon(<<leftInput, rightInput>>)

\* The Merkle part of the predicate: all bits binary and the fold equals merkleRoot.
MerkleProofVerifies(levels, calculatedCommitment, pathElements, pathIndices, merkleRoot) ==
    /\ \A i \in 1 .. levels : BinaryConstraint(pathIndices[i])
    /\ merkleRoot = currentHashes(levels, calculatedCommitment, pathElements, pathIndices)

---------------------------------------------------------------------------
(* Inputs of the tree's operations *)

\* The commitments offered to insert, as decimal strings.
Commitments == {ToString(Fe(1)), ToString(Fe(2))}

\* The indices offered to generateProof: every slot and one past the end.
Indices == 0 .. (2 ^ Depth)

TreeInit ==
    /\ merkleTree = NewMerkleTree(Depth)
    /\ treeLast = [op |-> "new", ok |-> TRUE]

TreeInsert(commitment) ==
    LET r == insert(merkleTree, commitment)
    IN  /\ merkleTree' = r.tree
        /\ treeLast' = IF r.ok
                       THEN [op |-> "insert", ok |-> TRUE, result |-> r.result]
                       ELSE [op |-> "insert", ok |-> FALSE, err |-> r.err]

TreeGenerateProof(index) ==
    LET r == generateProof(merkleTree, index)
    IN  /\ treeLast' = IF r.ok
                       THEN [op |-> "generateProof", ok |-> TRUE, index |-> index,
                             result |-> r.result]
                       ELSE [op |-> "generateProof", ok |-> FALSE, index |-> index,
                             err |-> r.err]
        /\ UNCHANGED merkleTree

TreeGetRoot ==
    /\ treeLast' = [op |-> "getRoot", ok |-> TRUE, result |-> getRoot(merkleTree)]
    /\ UNCHANGED merkleTree

\* generateProof(index) of merkleTree.js on the same tree.
TreeGenerateProofJs(index) ==
    LET r == generateProofJs(merkleTree, index)
    IN  /\ treeLast' = IF r.ok
                       THEN [op |-> "js.generateProof", ok |-> TRUE, index |-> index,
                             result |-> r.result]
                       ELSE [op |-> "js.generateProof", ok |-> FALSE, index |-> index,
                             err |-> r.err]
        /\ UNCHANGED merkleTree

\* getRoot() of merkleTree.js on the same tree.
TreeGetRootJs ==
    LET r == getRootJs(merkleTree)
    IN  /\ treeLast' = IF r.ok
                       THEN [op |-> "js.getRoot", ok |-> TRUE, result |-> r.result]
                       ELSE [op |-> "js.getRoot", ok |-> FALSE, err |-> r.err]
        /\ UNCHANGED merkleTree

TreeNext ==
    \/ \E commitment \in Commitments : TreeInsert(commitment) /\ UNCHANGED <<ledgerVars, flowVars>>
    \/ \E index \in Indices : TreeGenerateProof(index) /\ UNCHANGED <<ledgerVars, flowVars>>
    \/ TreeGetRoot /\ UNCHANGED <<ledgerVars, flowVars>>
    \/ \E index \in Indices : TreeGenerateProofJs(index) /\ UNCHANGED <<ledgerVars, flowVars>>
    \/ TreeGetRootJs /\ UNCHANGED <<ledgerVars, flowVars>>

---------------------------------------------------------------------------
(* Addresses, words and the ERC20 token *)

\* address(0)
ZeroAddress == 0
\* The accounts that send transactions.
Users == {1, 2}
\* address(this), the PrivaxProtocol contract.
PoolAddress == 3
\* address(token)
TokenAddress == 4
\* msg.sender of the constructor.
Deployer == CHOOSE u \in Users : \A v \in Users : u <= v

\* The addresses offered as arguments.
Address == {ZeroAddress} \cup Users \cup {PoolAddress}
\* The accounts that hold tokens.
Accounts == Users \cup {PoolAddress}
\* The amounts offered as arguments.
Amounts == 0 .. MaxAmount

\* Width of a uint256 word in the model.
WordBits == 2 * AddrBits
\* uint160(address)
Uint160(a) == a % (2 ^ AddrBits)
\* uint256(x) of a narrower unsigned value: zero extension.
Uint256(x) == x % (2 ^ WordBits)

\* The fee the token keeps on a transfer of `amount`.
Fee(amount) == IF tokenFee <= amount THEN tokenFee ELSE amount

\* ERC20 transfer of `amount` from `from` to `to`: the sender pays `amount`,
\* the receiver gets it less the token's fee.  Reverts when the sender's
\* balance is too small.
TokenTransfer(bal, from, to, amount) ==
    IF bal[from] < amount
    THEN [ok |-> FALSE, err |-> "ERC20: transfer amount exceeds balance", balances |-> bal]
    ELSE [ok |-> TRUE,
          balances |-> [[bal EXCEPT ![from] = @ - amount]
                             EXCEPT ![to] = @ + (amount - Fee(amount))]]

\* token.balanceOf(account); an address that never held tokens has balance 0.
balanceOf(bal, account) == IF account \in DOMAIN bal THEN bal[account] ELSE 0

---------------------------------------------------------------------------
(* MockVerifier *)

\* verifyProof(a, b, c, publicInputs): the predetermined result.
verifyProof(proof, publicInputs) == verificationResult

---------------------------------------------------------------------------
(* PrivaxProtocol *)

\* Expected number of public inputs.
REQUIRED_PUBLIC_INPUTS_COUNT == 5

AdminChanged(oldAdmin, newAdmin) ==
    [name |-> "AdminChanged", oldAdmin |-> oldAdmin, newAdmin |-> newAdmin]
RelayerAdded(relayerAddress) ==
    [name |-> "RelayerAdded", relayerAddress |-> relayerAddress]
RelayerRemoved(relayerAddress) ==
    [name |-> "RelayerRemoved", relayerAddress |-> relayerAddress]
DepositOccurred(user, tokenAddress, amount, commitment) ==
    [name |-> "DepositOccurred", user |-> user, tokenAddress |-> tokenAddress,
     amount |-> amount, commitment |-> commitment]
WithdrawalOccurred(nullifierHash, recipient, tokenAddress, amount) ==
    [name |-> "WithdrawalOccurred", nullifierHash |-> nullifierHash,
     recipient |-> recipient, tokenAddress |-> tokenAddress, amount |-> amount]

\* The empty reason: the call does not revert.
NoRevert == ""

\* A reverted transaction: the EVM rolls every effect back; the caller sees
\* the reason.
Reverted == UNCHANGED ledgerVars

\* onlyAdmin with the require left out: any caller passes.
onlyAdmin_anyCaller(sender) == NoRevert

\* modifier onlyAdmin: the reason it reverts with, NoRevert when it passes.
onlyAdmin(sender) ==
    IF sender = admin THEN NoRevert ELSE "Privax: Caller is not the admin"

\* The contract's storage: its state variables and immutables.  It keeps no
\* tree, no root and no nullifier set.
PrivaxProtocolStorage ==
    [admin |-> admin, token |-> TokenAddress,
     whitelistedRelayers |-> whitelistedRelayers]

\* constructor(_tokenAddress, _verifierAddress) called by Deployer, the token
\* (a standard one or one that keeps a fee) minted to the users.
LedgerInit ==
    /\ admin = Deployer
    /\ whitelistedRelayers = [a \in Address |-> FALSE]
    /\ balances = [a \in Accounts |-> IF a \in Users THEN MaxAmount ELSE 0]
    /\ tokenFee \in 0 .. TokenMaxFee
    /\ verificationResult = TRUE
    /\ events = <<AdminChanged(ZeroAddress, Deployer)>>
    /\ lastCall = [op |-> "constructor", sender |-> Deployer]

\* MockVerifier.setVerificationResult(result)
setVerificationResult(result) ==
    /\ verificationResult' = result
    /\ lastCall' = [op |-> "setVerificationResult", result |-> result]
    /\ UNCHANGED <<admin, whitelistedRelayers, balances, tokenFee, events>>

\* addRelayer's checks without the one of the address being whitelisted
\* already.
addRelayerRevert_noDuplicateCheck(sender, relayerAddress) ==
    CASE onlyAdmin(sender) # NoRevert -> onlyAdmin(sender)
      [] relayerAddress = ZeroAddress -> "Privax: Invalid relayer address"
      [] OTHER -> NoRevert

\* The requires of addRelayer, in order: the reason the call reverts with.
addRelayerRevert(sender, relayerAddress) ==
    CASE onlyAdmin(sender) # NoRevert -> onlyAdmin(sender)
      [] relayerAddress = ZeroAddress -> "Privax: Invalid relayer address"
      [] whitelistedRelayers[relayerAddress] -> "Privax: Relayer already whitelisted"
      [] OTHER -> NoRevert

\* addRelayer(_relayerAddress)
addRelayer(sender, relayerAddress) ==
    IF addRelayerRevert(sender, relayerAddress) # NoRevert
    THEN Reverted
    ELSE /\ Len(events) < MaxEvents
         /\ whitelistedRelayers' = [whitelistedRelayers EXCEPT ![relayerAddress] = TRUE]
         /\ events' = Append(events, RelayerAdded(relayerAddress))
         /\ lastCall' = [op |-> "addRelayer", sender |-> sender,
                         relayerAddress |-> relayerAddress]
         /\ UNCHANGED <<admin, balances, tokenFee, verificationResult>>

\* The requires of removeRelayer, in order.
removeRelayerRevert(sender, relayerAddress) ==
    CASE onlyAdmin(sender) # NoRevert -> onlyAdmin(sender)
      [] ~whitelistedRelayers[relayerAddress] -> "Privax: Relayer not whitelisted"
      [] OTHER -> NoRevert

\* removeRelayer that clears the whole whitelist.
removeRelayer_clearsAll(sender, relayerAddress) ==
    IF removeRelayerRevert(sender, relayerAddress) # NoRevert
    THEN Reverted
    ELSE /\ Len(events) < MaxEvents
         /\ whitelistedRelayers' = [a \in Address |-> FALSE]
         /\ events' = Append(events, RelayerRemoved(relayerAddress))
         /\ lastCall' = [op |-> "removeRelayer", sender |-> sender,
                         relayerAddress |-> relayerAddress]
         /\ UNCHANGED <<admin, balances, tokenFee, verificationResult>>

\* removeRelayer(_relayerAddress)
removeRelayer(sender, relayerAddress) ==
    IF removeRelayerRevert(sender, relayerAddress) # NoRevert
    THEN Reverted
    ELSE /\ Len(events) < MaxEvents
         /\ whitelistedRelayers' = [whitelistedRelayers EXCEPT ![relayerAddress] = FALSE]
         /\ events' = Append(events, RelayerRemoved(relayerAddress))
         /\ lastCall' = [op |-> "removeRelayer", sender |-> sender,
                         relayerAddress |-> relayerAddress]
         /\ UNCHANGED <<admin, balances, tokenFee, verificationResult>>

\* transferOwnership's checks without the one of the zero address.
transferOwnershipRevert_noZeroCheck(sender, newAdmin) == onlyAdmin(sender)

\* The requires of transferOwnership, in order.
transferOwnershipRevert(sender, newAdmin) ==
    CASE onlyAdmin(sender) # NoRevert -> onlyAdmin(sender)
      [] newAdmin = ZeroAddress -> "Privax: New admin cannot be the zero address"
      [] OTHER -> NoRevert

\* transferOwnership that also clears the whitelist.
transferOwnership_clearsWhitelist(sender, newAdmin) ==
    IF transferOwnershipRevert(sender, newAdmin) # NoRevert
    THEN Reverted
    ELSE /\ Len(events) < MaxEvents
         /\ events' = Append(events, AdminChanged(admin, newAdmin))
         /\ admin' = newAdmin
         /\ whitelistedRelayers' = [a \in Address |-> FALSE]
         /\ lastCall' = [op |-> "transferOwnership", sender |-> sender,
                         newAdmin |-> newAdmin]
         /\ UNCHANGED <<balances, tokenFee, verificationResult>>

\* transferOwnership(_newAdmin)
transferOwnership(sender, newAdmin) ==
    IF transferOwnershipRevert(sender, newAdmin) # NoRevert
    THEN Reverted
    ELSE /\ Len(events) < MaxEvents
         /\ events' = Append(events, AdminChanged(admin, newAdmin))
         /\ admin' = newAdmin
         /\ lastCall' = [op |-> "transferOwnership", sender |-> sender,
                         newAdmin |-> newAdmin]
         /\ UNCHANGED <<whitelistedRelayers, balances, tokenFee, verificationResult>>

\* deposit without the check of the pool's balance after the transfer.
depositRevert_noBalanceCheck(sender, amount, commitment) ==
    LET moved == TokenTransfer(balances, sender, PoolAddress, amount)
    IN  CASE ~(amount > 0) -> "Privax: Deposit amount must be greater than zero"
          [] ~moved.ok -> moved.err
          [] OTHER -> NoRevert

\* deposit without the require on the amount.
depositRevert_noAmountCheck(sender, amount, commitment) ==
    LET initialBalance == balanceOf(balances, PoolAddress)
        moved == TokenTransfer(balances, sender, PoolAddress, amount)
        finalBalance == balanceOf(moved.balances, PoolAddress)
    IN  CASE ~moved.ok -> moved.err
          [] finalBalance # initialBalance + amount ->
                 "Privax: Token transfer failed or incorrect amount"
          [] OTHER -> NoRevert

\* The requires of deposit and the token's own, in order.
depositRevert(sender, amount, commitment) ==
    LET initialBalance == balanceOf(balances, PoolAddress)
        moved == TokenTransfer(balances, sender, PoolAddress, amount)
        finalBalance == balanceOf(moved.balances, PoolAddress)
    IN  CASE ~(amount > 0) -> "Privax: Deposit amount must be greater than zero"
          [] ~moved.ok -> moved.err
          [] finalBalance # initialBalance + amount ->
                 "Privax: Token transfer failed or incorrect amount"
          [] OTHER -> NoRevert

\* deposit(_amount, _commitment) sent by `sender`.
deposit(sender, amount, commitment) ==
    IF depositRevert(sender, amount, commitment) # NoRevert
    THEN Reverted
    ELSE /\ Len(events) < MaxEvents
         /\ balances' = TokenTransfer(balances, sender, PoolAddress, amount).balances
         /\ events' = Append(events,
                             DepositOccurred(sender, TokenAddress, amount, commitment))
         /\ lastCall' = [op |-> "deposit", sender |-> sender, amount |-> amount,
                         commitment |-> commitment]
         /\ UNCHANGED <<admin, whitelistedRelayers, tokenFee, verificationResult>>

\* withdraw without the two requires that bind the recipient and the amount
\* arguments to the public inputs.
withdrawRevert_noBinding(proof, publicInputs, recipient, amountToWithdraw) ==
    LET isValid == verifyProof(proof, publicInputs)
        initialRecipientBalance == balanceOf(balances, recipient)
        moved == TokenTransfer(balances, PoolAddress, recipient, amountToWithdraw)
        finalRecipientBalance == balanceOf(moved.balances, recipient)
    IN  CASE ~(amountToWithdraw > 0) ->
                 "Privax: Withdrawal amount must be greater than zero"
          [] recipient = ZeroAddress -> "Privax: Recipient cannot be the zero address"
          [] Len(publicInputs) # REQUIRED_PUBLIC_INPUTS_COUNT ->
                 "Privax: Incorrect number of public inputs"
          [] ~isValid -> "Privax: Invalid ZK proof"
          [] ~moved.ok -> moved.err
          [] finalRecipientBalance # initialRecipientBalance + amountToWithdraw ->
                 "Privax: Token transfer failed or incorrect amount"
          [] OTHER -> NoRevert

\* withdraw with the verifier consulted before the arguments are validated.
withdrawRevert_verifyFirst(proof, publicInputs, recipient, amountToWithdraw) ==
    LET isValid == verifyProof(proof, publicInputs)
        initialRecipientBalance == balanceOf(balances, recipient)
        moved == TokenTransfer(balances, PoolAddress, recipient, amountToWithdraw)
        finalRecipientBalance == balanceOf(moved.balances, recipient)
    IN  CASE ~isValid -> "Privax: Invalid ZK proof"
          [] ~(amountToWithdraw > 0) ->
                 "Privax: Withdrawal amount must be greater than zero"
          [] recipient = ZeroAddress -> "Privax: Recipient cannot be the zero address"
          [] Len(publicInputs) # REQUIRED_PUBLIC_INPUTS_COUNT ->
                 "Privax: Incorrect number of public inputs"
          [] Uint256(Uint160(recipient)) # publicInputs[3] ->
                 "Privax: Recipient mismatch in proof inputs"
          [] amountToWithdraw # publicInputs[4] ->
                 "Privax: Amount mismatch in proof inputs"
          [] ~moved.ok -> moved.err
          [] finalRecipientBalance # initialRecipientBalance + amountToWithdraw ->
                 "Privax: Token transfer failed or incorrect amount"
          [] OTHER -> NoRevert

\* withdraw without the require on the verifier's answer.
withdrawRevert_noProofCheck(proof, publicInputs, recipient, amountToWithdraw) ==
    LET initialRecipientBalance == balanceOf(balances, recipient)
        moved == TokenTransfer(balances, PoolAddress, recipient, amountToWithdraw)
        finalRecipientBalance == balanceOf(moved.balances, recipient)
    IN  CASE ~(amountToWithdraw > 0) ->
                 "Privax: Withdrawal amount must be greater than zero"
          [] recipient = ZeroAddress -> "Privax: Recipient cannot be the zero address"
          [] Len(publicInputs) # REQUIRED_PUBLIC_INPUTS_COUNT ->
                 "Privax: Incorrect number of public inputs"
          [] Uint256(Uint160(recipient)) # publicInputs[3] ->
                 "Privax: Recipient mismatch in proof inputs"
          [] amountToWithdraw # publicInputs[4] ->
                 "Privax: Amount mismatch in proof inputs"
          [] ~moved.ok -> moved.err
          [] finalRecipientBalance # initialRecipientBalance + amountToWithdraw ->
                 "Privax: Token transfer failed or incorrect amount"
          [] OTHER -> NoRevert

\* withdraw without the check of the recipient's balance after the transfer.
withdrawRevert_noBalanceCheck(proof, publicInputs, recipient, amountToWithdraw) ==
    LET isValid == verifyProof(proof, publicInputs)
        moved == TokenTransfer(balances, PoolAddress, recipient, amountToWithdraw)
    IN  CASE ~(amountToWithdraw > 0) ->
                 "Privax: Withdrawal amount must be greater than zero"
          [] recipient = ZeroAddress -> "Privax: Recipient cannot be the zero address"
          [] Len(publicInputs) # REQUIRED_PUBLIC_INPUTS_COUNT ->
                 "Privax: Incorrect number of public inputs"
          [] Uint256(Uint160(recipient)) # publicInputs[3] ->
                 "Privax: Recipient mismatch in proof inputs"
          [] amountToWithdraw # publicInputs[4] ->
                 "Privax: Amount mismatch in proof inputs"
          [] ~isValid -> "Privax: Invalid ZK proof"
          [] ~moved.ok -> moved.err
          [] OTHER -> NoRevert

\* The requires of withdraw and the token's own, in order.
withdrawRevert(proof, publicInputs, recipient, amountToWithdraw) ==
    LET isValid == verifyProof(proof, publicInputs)
        initialRecipientBalance == balanceOf(balances, recipient)
        moved == TokenTransfer(balances, PoolAddress, recipient, amountToWithdraw)
        finalRecipientBalance == balanceOf(moved.balances, recipient)
    IN  CASE ~(amountToWithdraw > 0) ->
                 "Privax: Withdrawal amount must be greater than zero"
          [] recipient = ZeroAddress -> "Privax: Recipient cannot be the zero address"
          [] Len(publicInputs) # REQUIRED_PUBLIC_INPUTS_COUNT ->
                 "Privax: Incorrect number of public inputs"
          [] Uint256(Uint160(recipient)) # publicInputs[3] ->
                 "Privax: Recipient mismatch in proof inputs"
          [] amountToWithdraw # publicInputs[4] ->
                 "Privax: Amount mismatch in proof inputs"
          [] ~isValid -> "Privax: Invalid ZK proof"
          [] ~moved.ok -> moved.err
          [] finalRecipientBalance # initialRecipientBalance + amountToWithdraw ->
                 "Privax: Token transfer failed or incorrect amount"
          [] OTHER -> NoRevert

\* withdraw(_a, _b, _c, _publicInputs, _recipient, _amountToWithdraw); the
\* proof stands for (_a, _b, _c).
withdraw(proof, publicInputs, recipient, amountToWithdraw) ==
    IF withdrawRevert(proof, publicInputs, recipient, amountToWithdraw) # NoRevert
    THEN Reverted
    ELSE LET nullifierHash == publicInputs[2]
         IN  /\ Len(events) < MaxEvents
             /\ balances' = TokenTransfer(balances, PoolAddress, recipient,
                                          amountToWithdraw).balances
             /\ events' = Append(events,
                                 WithdrawalOccurred(nullifierHash, recipient, TokenAddress,
                                                    amountToWithdraw))
             /\ lastCall' = [op |-> "withdraw", publicInputs |-> publicInputs,
                             recipient |-> recipient, amount |-> amountToWithdraw]
             /\ UNCHANGED <<admin, whitelistedRelayers, tokenFee, verificationResult>>

\* isRelayer(_address)
isRelayer(a) == whitelistedRelayers[a]

---------------------------------------------------------------------------
(* Inputs of the ledger's operations *)

\* The bytes32 commitments offered to deposit.
LedgerCommitments == {1, 2}
\* The nullifier hashes offered in publicInputs[1].
NullifierHashes == {1, 2}
\* The external nullifier offered in publicInputs[4].
ExternalNullifier == Uint256(Uint160(PoolAddress))
\* The proofs (_a, _b, _c) offered to withdraw.
Proofs == {"proof"}

\* The commitments of the deposits the ledger has recorded, in order.
DepositCommitments(log) ==
    LET recorded == SelectSeq(log, LAMBDA e : e.name = "DepositOccurred")
    IN  [k \in 1 .. Len(recorded) |-> recorded[k].commitment]

RECURSIVE ReplayTree(_)
\* The tree obtained by inserting the given bytes32 commitments in order.
ReplayTree(commitments) ==
    IF commitments = <<>>
    THEN NewMerkleTree(Depth)
    ELSE insert(ReplayTree(SubSeq(commitments, 1, Len(commitments) - 1)),
                ToString(Fe(commitments[Len(commitments)]))).tree

\* The root of the tree that replays the given commitments, as a uint256.
ReplayRoot(commitments) == toField(getRoot(ReplayTree(commitments)))

\* The root of the tree of the deposits recorded so far.
CurrentRoot == ReplayRoot(DepositCommitments(events))

\* The root the tree held `k` deposits ago (the empty tree's before that).
RootAgo(k) ==
    LET dc == DepositCommitments(events)
    IN  ReplayRoot(SubSeq(dc, 1, IF Len(dc) >= k THEN Len(dc) - k ELSE 0))

\* A root the ledger has not reached yet: the current tree and one more leaf.
RootAhead == ReplayRoot(Append(DepositCommitments(events), 1))

\* The roots offered in publicInputs[0]: the current root, the root two
\* deposits ago, and a root the ledger has not reached yet.
RootChoices == {CurrentRoot, RootAgo(2), RootAhead}

\* A withdraw call: the arguments of one transaction.
WithdrawCall(publicInputs, recipient, amount) ==
    [publicInputs |-> publicInputs, recipient |-> recipient, amount |-> amount]

\* The calls whose arguments agree with their public inputs.
ConsistentCalls ==
    {WithdrawCall(<<r, n, Uint256(Uint160(recipient)), amount, ExternalNullifier>>,
                  recipient, amount) :
        r \in RootChoices, n \in NullifierHashes,
        recipient \in Accounts, amount \in 1 .. MaxAmount}

\* The calls that deviate from a consistent one (for a user, against the
\* current root): another recipient or amount argument, a recipient word
\* with a bit set above the address width, a word missing or a word too many.
DeviatingCalls ==
    LET base == {c \in ConsistentCalls :
                    /\ c.publicInputs[1] = CurrentRoot
                    /\ c.publicInputs[2] \in NullifierHashes
                    /\ c.recipient \in Users}
        p(c) == c.publicInputs
    IN  UNION {
          {WithdrawCall(p(c), a, c.amount) : a \in Address \ {c.recipient}}
            \cup {WithdrawCall(p(c), c.recipient, m) : m \in Amounts \ {c.amount}}
            \cup {WithdrawCall([p(c) EXCEPT ![3] = @ + 2 ^ AddrBits], c.recipient, c.amount),
                  WithdrawCall(SubSeq(p(c), 1, 4), c.recipient, c.amount),
                  WithdrawCall(Append(p(c), 1), c.recipient, c.amount)}
          : c \in base}

\* The calls offered to withdraw.
WithdrawCalls == ConsistentCalls \cup DeviatingCalls

---------------------------------------------------------------------------
(* The reference flow (index.js): deposit, generateWithdrawalProof and      *)
(* withdraw over the stores deposits and spentNullifiers and the tree of   *)
(* merkleTree.js.                                                          *)

\* The callers that may have a withdraw call in flight at the same time.
Callers == {1, 2}

\* The amounts, user addresses and random secrets offered to deposit.
FlowAmounts == {ToString(Fe(1))}
FlowAddresses == {ToString(Fe(1))}
FlowSecrets == {ToString(Fe(1))}
FlowNullifierSecrets == {ToString(Fe(1)), ToString(Fe(2))}

\* The nullifier hashes offered to withdraw.
FlowNullifiers == {generateNullifierHash(ns) : ns \in FlowNullifierSecrets}

\* The public signals offered to withdraw: merkleRoot, nullifierHash,
\* recipient, amount, externalNullifier.
FlowPublicSignals ==
    {<<ToString(calculateZeros(Depth)), n, a, m, ToString(Fe(1))>> :
        n \in FlowNullifiers, a \in FlowAddresses, m \in FlowAmounts}

\* No withdraw call in flight for a caller.
Idle == [pc |-> "idle"]

\* initialize(): empty stores and a new tree.
FlowInit ==
    /\ deposits = [c \in {} |-> undefined]
    /\ spentNullifiers = {}
    /\ calls = [c \in Callers |-> Idle]
    /\ returned = [n \in FlowNullifiers |-> 0]
    /\ flowLast = [op |-> "initialize", ok |-> TRUE]
    /\ depositing = [c \in Callers |-> Idle]
    /\ proving = Idle

\* deposit(amount, userAddress), with the random secret and nullifierSecret
\* it draws.
FlowDeposit(amount, userAddress, secret, nullifierSecret) ==
    LET commitment == generateCommitment(amount, secret, nullifierSecret)
        r == insert(merkleTree, commitment)
        nullifierHash == generateNullifierHash(nullifierSecret)
        record == [index |-> r.result, amount |-> amount, secret |-> secret,
                   nullifierSecret |-> nullifierSecret,
                   nullifierHash |-> nullifierHash, recipient |-> userAddress]
    IN  IF ~r.ok
        THEN /\ flowLast' = [op |-> "deposit", ok |-> FALSE, err |-> r.err]
             /\ UNCHANGED <<merkleTree, deposits, spentNullifiers, calls, returned>>
        ELSE /\ merkleTree' = r.tree
             /\ deposits' = [c \in DOMAIN deposits \cup {commitment} |->
                                IF c = commitment THEN record ELSE deposits[c]]
             /\ flowLast' = [op |-> "deposit", ok |-> TRUE,
                             result |-> [commitment |-> commitment,
                                         nullifierHash |-> nullifierHash,
                                         secret |-> secret,
                                         nullifierSecret |-> nullifierSecret,
                                         index |-> r.result]]
             /\ UNCHANGED <<spentNullifiers, calls, returned>>

\* generateWithdrawalProof(...): what it returns or throws.
generateWithdrawalProof(amount, secret, nullifierSecret, recipient, externalNullifier, index) ==
    LET commitment == generateCommitment(amount, secret, nullifierSecret)
        nullifierHash == generateNullifierHash(nullifierSecret)
        path == generateProofJs(merkleTree, index)
        root == getRootJs(merkleTree)
    IN  CASE commitment \notin DOMAIN deposits ->
                 [ok |-> FALSE, err |-> "Deposit not found"]
          [] nullifierHash \in spentNullifiers ->
                 [ok |-> FALSE, err |-> "Deposit already withdrawn"]
          [] ~path.ok -> [ok |-> FALSE, err |-> path.err]
          [] ~root.ok -> [ok |-> FALSE, err |-> root.err]
          [] OTHER ->
                 [ok |-> TRUE,
                  result |-> [secret |-> secret, nullifierSecret |-> nullifierSecret,
                              pathElements |-> path.result.pathElements,
                              pathIndices |-> path.result.pathIndices,
                              merkleRoot |-> root.result,
                              nullifierHash |-> nullifierHash,
                              recipient |-> recipient, amount |-> amount,
                              externalNullifier |-> externalNullifier]]

\* A call of generateWithdrawalProof; it changes no store.
FlowGenerateWithdrawalProof(amount, secret, nullifierSecret, recipient, externalNullifier, index) ==
    LET r == generateWithdrawalProof(amount, secret, nullifierSecret, recipient,
                                     externalNullifier, index)
    IN  /\ flowLast' = IF r.ok
                       THEN [op |-> "generateWithdrawalProof", ok |-> TRUE,
                             result |-> r.result]
                       ELSE [op |-> "generateWithdrawalProof", ok |-> FALSE,
                             nullifierHash |-> generateNullifierHash(nullifierSecret),
                             err |-> r.err]
        /\ UNCHANGED <<merkleTree, deposits, spentNullifiers, calls, returned>>

\* withdraw without the check of the spent set.
withdrawCheck_omitted(spent, nullifierHash) == [ok |-> TRUE]

\* withdraw, up to its first await: the check of the spent set.
withdrawCheck(spent, nullifierHash) ==
    IF nullifierHash \in spent
    THEN [ok |-> FALSE, err |-> "Deposit already withdrawn"]
    ELSE [ok |-> TRUE]

\* withdraw that takes the nullifier hash out of the spent set when the proof
\* is invalid.
withdrawSettle_forgets(spent, nullifierHash, publicSignals, isValid) ==
    IF ~isValid
    THEN [ok |-> FALSE, err |-> "Invalid proof", spent |-> spent \ {nullifierHash}]
    ELSE [ok |-> TRUE, spent |-> spent \cup {nullifierHash},
          result |-> [amount |-> publicSignals[4], recipient |-> publicSignals[3]]]

\* withdraw, from the verifier's answer on: the spent set after it and what
\* the call returns or throws.
withdrawSettle(spent, nullifierHash, publicSignals, isValid) ==
    IF ~isValid
    THEN [ok |-> FALSE, err |-> "Invalid proof", spent |-> spent]
    ELSE [ok |-> TRUE, spent |-> spent \cup {nullifierHash},
          result |-> [amount |-> publicSignals[4], recipient |-> publicSignals[3]]]

\* withdraw(nullifierHash, proof, publicSignals) is called: it runs until it
\* throws or suspends at `await readFile(...)`.
FlowWithdrawCall(caller, nullifierHash, proof, publicSignals) ==
    /\ calls[caller] = Idle
    /\ LET r == withdrawCheck(spentNullifiers, nullifierHash)
       IN  IF ~r.ok
           THEN /\ flowLast' = [op |-> "withdraw", caller |-> caller, ok |-> FALSE,
                                nullifierHash |-> nullifierHash, err |-> r.err,
                                verifierCalled |-> FALSE]
                /\ UNCHANGED calls
           ELSE /\ calls' = [calls EXCEPT ![caller] =
                                [pc |-> "readFile", nullifierHash |-> nullifierHash,
                                 publicSignals |-> publicSignals]]
                /\ UNCHANGED flowLast
    /\ UNCHANGED <<merkleTree, deposits, spentNullifiers, returned>>

\* withdraw that starts a new tree while it reads the verification key.
FlowWithdrawReadFile_newTree(caller) ==
    /\ calls[caller].pc = "readFile"
    /\ calls' = [calls EXCEPT ![caller].pc = "verify"]
    /\ merkleTree' = NewMerkleTree(Depth)
    /\ UNCHANGED <<deposits, spentNullifiers, returned, flowLast>>

\* The verification key is read: the call asks snarkjs.groth16.verify and
\* suspends at its await.
FlowWithdrawReadFile(caller) ==
    /\ calls[caller].pc = "readFile"
    /\ calls' = [calls EXCEPT ![caller].pc = "verify"]
    /\ UNCHANGED <<merkleTree, deposits, spentNullifiers, returned, flowLast>>

\* The verifier answers: the call throws 'Invalid proof', or marks the
\* nullifier spent and returns.
FlowWithdrawSettle(caller, isValid) ==
    /\ calls[caller].pc = "verify"
    /\ LET nullifierHash == calls[caller].nullifierHash
           r == withdrawSettle(spentNullifiers, nullifierHash,
                               calls[caller].publicSignals, isValid)
       IN  /\ spentNullifiers' = r.spent
           /\ returned' = IF r.ok
                          THEN [returned EXCEPT ![nullifierHash] = @ + 1]
                          ELSE returned
           /\ flowLast' = IF r.ok
                          THEN [op |-> "withdraw", caller |-> caller, ok |-> TRUE,
                                nullifierHash |-> nullifierHash, result |-> r.result,
                                verifierCalled |-> TRUE]
                          ELSE [op |-> "withdraw", caller |-> caller, ok |-> FALSE,
                                nullifierHash |-> nullifierHash, err |-> r.err,
                                verifierCalled |-> TRUE]
    /\ calls' = [calls EXCEPT ![caller] = Idle]
    /\ UNCHANGED <<merkleTree, deposits>>

---------------------------------------------------------------------------
(* The reference flow's deposit and generateWithdrawalProof, step by step: *)
(* an async function runs until its next await and may be resumed after    *)
(* any step of another call.                                               *)

\* The MerkleTree classes index.js may be run with.
TreeClasses == {"merkleTree.js", "merkleTree.ts"}

\* deposit(amount, userAddress) is called: it draws its secrets and suspends
\* at `await generateCommitment(...)`.
FlowDepositCall(caller, amount, userAddress, secret, nullifierSecret) ==
    /\ depositing[caller] = Idle
    /\ depositing' = [depositing EXCEPT ![caller] =
                         [pc |-> "generateCommitment", amount |-> amount,
                          secret |-> secret, nullifierSecret |-> nullifierSecret,
                          recipient |-> userAddress]]
    /\ UNCHANGED <<merkleTree, deposits, proving, flowLast>>

\* The commitment is there: the call runs merkleTree.insert(commitment),
\* which has no await of its own, and suspends at `await` of its result, or
\* throws 'Tree is full'.
FlowDepositInsert(caller) ==
    /\ depositing[caller].pc = "generateCommitment"
    /\ LET d == depositing[caller]
           commitment == generateCommitment(d.amount, d.secret, d.nullifierSecret)
           r == insert(merkleTree, commitment)
       IN  IF ~r.ok
           THEN /\ depositing' = [depositing EXCEPT ![caller] = Idle]
                /\ flowLast' = [op |-> "deposit", ok |-> FALSE, err |-> r.err]
                /\ UNCHANGED merkleTree
           ELSE /\ merkleTree' = r.tree
                /\ depositing' = [depositing EXCEPT ![caller] =
                                     [pc |-> "insert", amount |-> d.amount,
                                      secret |-> d.secret,
                                      nullifierSecret |-> d.nullifierSecret,
                                      recipient |-> d.recipient,
                                      commitment |-> commitment, index |-> r.result]]
                /\ UNCHANGED flowLast
    /\ UNCHANGED <<deposits, proving>>

\* The index is there: the call suspends at `await generateNullifierHash(...)`.
FlowDepositHash(caller) ==
    /\ depositing[caller].pc = "insert"
    /\ depositing' = [depositing EXCEPT ![caller].pc = "generateNullifierHash"]
    /\ UNCHANGED <<merkleTree, deposits, proving, flowLast>>

\* deposit that records the tree's last filled slot as the note's index.
FlowDepositStore_lastSlot(caller) ==
    /\ depositing[caller].pc = "generateNullifierHash"
    /\ LET d == depositing[caller]
           nullifierHash == generateNullifierHash(d.nullifierSecret)
           record == [index |-> merkleTree.filled - 1, amount |-> d.amount,
                      secret |-> d.secret, nullifierSecret |-> d.nullifierSecret,
                      nullifierHash |-> nullifierHash, recipient |-> d.recipient]
       IN  /\ deposits' = [c \in DOMAIN deposits \cup {d.commitment} |->
                              IF c = d.commitment THEN record ELSE deposits[c]]
           /\ flowLast' = [op |-> "deposit", ok |-> TRUE,
                           result |-> [commitment |-> d.commitment,
                                       nullifierHash |-> nullifierHash,
                                       secret |-> d.secret,
                                       nullifierSecret |-> d.nullifierSecret,
                                       index |-> merkleTree.filled - 1]]
    /\ depositing' = [depositing EXCEPT ![caller] = Idle]
    /\ UNCHANGED <<merkleTree, proving>>

\* The nullifier hash is there: the call stores deposits[commitment] and
\* returns.
FlowDepositStore(caller) ==
    /\ depositing[caller].pc = "generateNullifierHash"
    /\ LET d == depositing[caller]
           nullifierHash == generateNullifierHash(d.nullifierSecret)
           record == [index |-> d.index, amount |-> d.amount, secret |-> d.secret,
                      nullifierSecret |-> d.nullifierSecret,
                      nullifierHash |-> nullifierHash, recipient |-> d.recipient]
       IN  /\ deposits' = [c \in DOMAIN deposits \cup {d.commitment} |->
                              IF c = d.commitment THEN record ELSE deposits[c]]
           /\ flowLast' = [op |-> "deposit", ok |-> TRUE,
                           result |-> [commitment |-> d.commitment,
                                       nullifierHash |-> nullifierHash,
                                       secret |-> d.secret,
                                       nullifierSecret |-> d.nullifierSecret,
                                       index |-> d.index]]
    /\ depositing' = [depositing EXCEPT ![caller] = Idle]
    /\ UNCHANGED <<merkleTree, proving>>

\* generateWithdrawalProof throws: the call is over.
FlowProofThrows(err) ==
    /\ proving' = Idle
    /\ flowLast' = [op |-> "generateWithdrawalProof", ok |-> FALSE,
                    nullifierHash |-> generateNullifierHash(proving.nullifierSecret),
                    err |-> err]

\* generateWithdrawalProof(...) is called, index.js running with the given
\* MerkleTree class: it suspends at `await generateCommitment(...)`.
FlowProofCall(class, amount, secret, nullifierSecret, recipient, externalNullifier, index) ==
    /\ proving = Idle
    /\ proving' = [pc |-> "generateCommitment", class |-> class, amount |-> amount,
                   secret |-> secret, nullifierSecret |-> nullifierSecret,
                   recipient |-> recipient, externalNullifier |-> externalNullifier,
                   index |-> index]
    /\ UNCHANGED <<merkleTree, deposits, depositing, flowLast>>

\* The commitment is there: the call looks the deposit up and throws
\* 'Deposit not found' or suspends at `await generateNullifierHash(...)`.
FlowProofLookup ==
    /\ proving.pc = "generateCommitment"
    /\ LET commitment == generateCommitment(proving.amount, proving.secret,
                                            proving.nullifierSecret)
       IN  IF commitment \notin DOMAIN deposits
           THEN FlowProofThrows("Deposit not found")
           ELSE /\ proving' = [proving EXCEPT !.pc = "generateNullifierHash"]
                /\ UNCHANGED flowLast
    /\ UNCHANGED <<merkleTree, deposits, depositing>>

\* The nullifier hash is there: the call checks the spent set and calls
\* merkleTree.generateProof(index).  That of merkleTree.js runs to its end
\* without an await; that of the TypeScript class checks the index and
\* suspends at `await this.zeros`.
FlowProofGenerate ==
    /\ proving.pc = "generateNullifierHash"
    /\ LET nullifierHash == generateNullifierHash(proving.nullifierSecret)
           path == generateProofJs(merkleTree, proving.index)
       IN  CASE nullifierHash \in spentNullifiers ->
                    FlowProofThrows("Deposit already withdrawn")
             [] nullifierHash \notin spentNullifiers
                  /\ proving.class = "merkleTree.ts"
                  /\ proving.index >= merkleTree.filled ->
                    FlowProofThrows("Leaf does not exist")
             [] nullifierHash \notin spentNullifiers
                  /\ proving.class = "merkleTree.ts"
                  /\ proving.index < merkleTree.filled ->
                    /\ proving' = [proving EXCEPT !.pc = "zeros"]
                    /\ UNCHANGED flowLast
             [] nullifierHash \notin spentNullifiers
                  /\ proving.class = "merkleTree.js" /\ ~path.ok ->
                    FlowProofThrows(path.err)
             [] OTHER ->
                    /\ proving' = [pc |-> "generateProof", class |-> proving.class,
                                   amount |-> proving.amount, secret |-> proving.secret,
                                   nullifierSecret |-> proving.nullifierSecret,
                                   recipient |-> proving.recipient,
                                   externalNullifier |-> proving.externalNullifier,
                                   index |-> proving.index, path |-> path.result]
                    /\ UNCHANGED flowLast
    /\ UNCHANGED <<merkleTree, deposits, depositing>>

\* The zeros of the TypeScript class are there: generateProof runs its loop
\* and the call suspends at `await` of the path.
FlowProofPath ==
    /\ proving.pc = "zeros"
    /\ proving' = [pc |-> "generateProof", class |-> proving.class,
                   amount |-> proving.amount, secret |-> proving.secret,
                   nullifierSecret |-> proving.nullifierSecret,
                   recipient |-> proving.recipient,
                   externalNullifier |-> proving.externalNullifier,
                   index |-> proving.index,
                   path |-> generateProof(merkleTree, proving.index).result]
    /\ UNCHANGED <<merkleTree, deposits, depositing, flowLast>>

\* getRoot() of the given MerkleTree class.
getRootOf(class, t) ==
    IF class = "merkleTree.js" THEN getRootJs(t) ELSE [ok |-> TRUE, result |-> getRoot(t)]

\* The path is there: the call reads merkleTree.getRoot() and returns the
\* circuit inputs, or throws what getRoot throws.
FlowProofRoot ==
    /\ proving.pc = "generateProof"
    /\ LET root == getRootOf(proving.class, merkleTree)
       IN  IF ~root.ok
           THEN FlowProofThrows(root.err)
           ELSE /\ proving' = Idle
                /\ flowLast' =
                       [op |-> "generateWithdrawalProof", ok |-> TRUE,
                        class |-> proving.class, index |-> proving.index,
                        result |-> [secret |-> proving.secret,
                                    nullifierSecret |-> proving.nullifierSecret,
                                    pathElements |-> proving.path.pathElements,
                                    pathIndices |-> proving.path.pathIndices,
                                    merkleRoot |-> root.result,
                                    nullifierHash |->
                                        generateNullifierHash(proving.nullifierSecret),
                                    recipient |-> proving.recipient,
                                    amount |-> proving.amount,
                                    externalNullifier |-> proving.externalNullifier]]
    /\ UNCHANGED <<merkleTree, deposits, depositing>>

Init == TreeInit /\ LedgerInit /\ FlowInit

\* The ledger contract run on its own.
Next ==
    \/ \E result \in BOOLEAN :
           setVerificationResult(result) /\ UNCHANGED <<treeVars, flowVars>>
    \/ \E sender \in Users, a \in Address :
           addRelayer(sender, a) /\ UNCHANGED <<treeVars, flowVars>>
    \/ \E sender \in Users, a \in Address :
           removeRelayer(sender, a) /\ UNCHANGED <<treeVars, flowVars>>
    \/ \E sender \in Users, a \in Address :
           transferOwnership(sender, a) /\ UNCHANGED <<treeVars, flowVars>>
    \/ \E sender \in Users, amount \in Amounts, c \in LedgerCommitments :
           deposit(sender, amount, c) /\ UNCHANGED <<treeVars, flowVars>>
    \/ \E proof \in Proofs, c \in WithdrawCalls :
           withdraw(proof, c.publicInputs, c.recipient, c.amount) /\ UNCHANGED <<treeVars, flowVars>>
Spec == Init /\ [][Next]_vars

\* The Merkle tree run on its own.
TreeSpec == Init /\ [][TreeNext]_vars

\* The reference flow, its withdraw calls interleaved at their awaits.
FlowNext ==
    \/ \E amount \in FlowAmounts, a \in FlowAddresses, secret \in FlowSecrets,
          nullifierSecret \in FlowNullifierSecrets :
           FlowDeposit(amount, a, secret, nullifierSecret)
               /\ UNCHANGED <<treeLast, ledgerVars, concVars>>
    \/ \E amount \in FlowAmounts, secret \in FlowSecrets,
          nullifierSecret \in FlowNullifierSecrets, a \in FlowAddresses,
          index \in Indices :
           FlowGenerateWithdrawalProof(amount, secret, nullifierSecret, a,
                                       ToString(Fe(1)), index)
               /\ UNCHANGED <<treeLast, ledgerVars, concVars>>
    \/ \E caller \in Callers, n \in FlowNullifiers, proof \in Proofs,
          publicSignals \in FlowPublicSignals :
           FlowWithdrawCall(caller, n, proof, publicSignals)
               /\ UNCHANGED <<treeLast, ledgerVars, concVars>>
    \/ \E caller \in Callers :
           FlowWithdrawReadFile(caller) /\ UNCHANGED <<treeLast, ledgerVars, concVars>>
    \/ \E caller \in Callers, isValid \in BOOLEAN :
           FlowWithdrawSettle(caller, isValid) /\ UNCHANGED <<treeLast, ledgerVars, concVars>>

\* The flow starts from initialize(); it holds no token, so the token's kind
\* is fixed to the standard one.
FlowStart == Init /\ tokenFee = 0
FlowSpec == FlowStart /\ [][FlowNext]_vars

\* The amounts offered to deposit when note creation runs on its own: zero
\* and a positive one.
NoteAmounts == {ToString(Fe(0)), ToString(Fe(1))}

\* Note creation run on its own: the flow's deposit with any of the amounts.
NoteNext ==
    \E amount \in NoteAmounts, a \in FlowAddresses, secret \in FlowSecrets,
       nullifierSecret \in FlowNullifierSecrets :
        FlowDeposit(amount, a, secret, nullifierSecret)
            /\ UNCHANGED <<treeLast, ledgerVars, concVars>>
NoteSpec == FlowStart /\ [][NoteNext]_vars

\* The stores the interleaved deposit and generateWithdrawalProof calls leave
\* alone.
concFrame == <<treeLast, ledgerVars, spentNullifiers, calls, returned>>

\* The flow's deposit calls of several callers, interleaved at their awaits.
ConcNext ==
    \/ \E caller \in Callers, amount \in FlowAmounts, a \in FlowAddresses,
          secret \in FlowSecrets, nullifierSecret \in FlowNullifierSecrets :
           FlowDepositCall(caller, amount, a, secret, nullifierSecret)
               /\ UNCHANGED concFrame
    \/ \E caller \in Callers : FlowDepositInsert(caller) /\ UNCHANGED concFrame
    \/ \E caller \in Callers : FlowDepositHash(caller) /\ UNCHANGED concFrame
    \/ \E caller \in Callers : FlowDepositStore(caller) /\ UNCHANGED concFrame
ConcSpec == FlowStart /\ [][ConcNext]_vars

\* The caller whose deposits run while a proof is being generated.
Depositors == {1}

\* A generateWithdrawalProof call interleaved at its awaits with the steps
\* of a depositor's deposit calls.
ProofNext ==
    \/ \E caller \in Depositors, amount \in FlowAmounts, a \in FlowAddresses,
          secret \in FlowSecrets, nullifierSecret \in FlowNullifierSecrets :
           FlowDepositCall(caller, amount, a, secret, nullifierSecret)
               /\ UNCHANGED concFrame
    \/ \E caller \in Depositors : FlowDepositInsert(caller) /\ UNCHANGED concFrame
    \/ \E caller \in Depositors : FlowDepositHash(caller) /\ UNCHANGED concFrame
    \/ \E caller \in Depositors : FlowDepositStore(caller) /\ UNCHANGED concFrame
    \/ \E class \in TreeClasses, amount \in FlowAmounts, secret \in FlowSecrets,
          nullifierSecret \in FlowNullifierSecrets, a \in FlowAddresses,
          index \in Indices :
           FlowProofCall(class, amount, secret, nullifierSecret, a, ToString(Fe(1)), index)
               /\ UNCHANGED concFrame
    \/ FlowProofLookup /\ UNCHANGED concFrame
    \/ FlowProofGenerate /\ UNCHANGED concFrame
    \/ FlowProofPath /\ UNCHANGED concFrame
    \/ FlowProofRoot /\ UNCHANGED concFrame
ProofSpec == FlowStart /\ [][ProofNext]_vars

---------------------------------------------------------------------------
(* Properties of the ledger (checked under Spec) *)

\* The outcome of a withdraw call in the current state.
CallRevert(c) == withdrawRevert("proof", c.publicInputs, c.recipient, c.amount)

\* The events of one kind the ledger has emitted.
EventsNamed(name) == SelectSeq(events, LAMBDA e : e.name = name)

RECURSIVE SumAmounts(_)
\* The sum of the amounts of a sequence of events.
SumAmounts(log) ==
    IF log = <<>> THEN 0 ELSE log[1].amount + SumAmounts(Tail(log))

\* The nullifier hashes of the withdrawals that succeeded.
WithdrawnNullifiers ==
    {events[k].nullifierHash :
        k \in {j \in DOMAIN events : events[j].name = "WithdrawalOccurred"}}

\* C1 (PoolLedger finality): once a withdraw has succeeded with nullifier
\* hash n, every withdraw call whose public inputs carry n fails, whatever
\* its root, recipient and amount and whatever the verifier answers.
C1_Finality ==
    \A c \in WithdrawCalls :
        c.publicInputs[2] \in WithdrawnNullifiers => CallRevert(c) # NoRevert

\* C2 (escrow conservation): the pool's token balance is the sum of the
\* amounts of the deposits that succeeded less the sum of the amounts of the
\* withdrawals that succeeded; the admin operations and the reverted calls
\* append no such event, so they leave it as it is.
C2_EscrowConservation ==
    balanceOf(balances, PoolAddress) =
        SumAmounts(EventsNamed("DepositOccurred"))
            - SumAmounts(EventsNamed("WithdrawalOccurred"))

\* C2 witness: deposits and a withdrawal have succeeded and the pool still
\* holds tokens.
C2_Witness ==
    /\ Len(EventsNamed("DepositOccurred")) >= 2
    /\ Len(EventsNamed("WithdrawalOccurred")) >= 1
    /\ balanceOf(balances, PoolAddress) > 0

\* C3 (stale-root rejection): a withdraw that succeeded named the root of the
\* tree of the deposits recorded so far (a withdraw records no deposit, so
\* the root before and after it is the same).
C3_StaleRootRejected ==
    lastCall.op = "withdraw" => lastCall.publicInputs[1] = CurrentRoot

\* C4 (root tracking): the ledger holds a currentRoot, and it is the root of
\* the tree that replays the commitments of the recorded deposits in order.
C4_RootTracking ==
    /\ "currentRoot" \in DOMAIN PrivaxProtocolStorage
    /\ PrivaxProtocolStorage.currentRoot = CurrentRoot

\* A call whose recipient or amount argument differs from the recipient or
\* the amount its public inputs encode.
ArgumentsMismatch(c) ==
    /\ Len(c.publicInputs) = REQUIRED_PUBLIC_INPUTS_COUNT
    /\ \/ Uint256(Uint160(c.recipient)) # c.publicInputs[3]
       \/ c.amount # c.publicInputs[4]

\* C5 (binding of call arguments): a withdraw call whose recipient or amount
\* argument differs from its public inputs fails in every state (so for
\* either answer of the verifier), and the withdraw that last took effect
\* was no such call.
C5_ArgumentBinding ==
    /\ \A c \in WithdrawCalls : ArgumentsMismatch(c) => CallRevert(c) # NoRevert
    /\ lastCall.op = "withdraw" => ~ArgumentsMismatch(lastCall)

\* C5 witness: the pool holds tokens and the verifier accepts, and calls are
\* turned down for the recipient and for the amount mismatch alone.
C5_Witness ==
    /\ verificationResult
    /\ balanceOf(balances, PoolAddress) >= MaxAmount
    /\ \E c \in WithdrawCalls :
           CallRevert(c) = "Privax: Recipient mismatch in proof inputs"
    /\ \E c \in WithdrawCalls :
           CallRevert(c) = "Privax: Amount mismatch in proof inputs"

\* The operations behind onlyAdmin.
AdminOps == {"addRelayer", "removeRelayer", "transferOwnership"}

\* C8, in a state: a caller other than the admin is turned down by all three
\* operations, the admin by none of them for being the caller, and the
\* admin after a transfer is the address the transfer named.
C8_OnlyAdminCanCall ==
    /\ \A sender \in Users, a \in Address :
           sender # admin =>
               /\ addRelayerRevert(sender, a) = "Privax: Caller is not the admin"
               /\ removeRelayerRevert(sender, a) = "Privax: Caller is not the admin"
               /\ transferOwnershipRevert(sender, a) = "Privax: Caller is not the admin"
    /\ \A a \in Address :
           /\ addRelayerRevert(admin, a) # "Privax: Caller is not the admin"
           /\ removeRelayerRevert(admin, a) # "Privax: Caller is not the admin"
           /\ transferOwnershipRevert(admin, a) # "Privax: Caller is not the admin"
    /\ lastCall.op = "transferOwnership" => admin = lastCall.newAdmin

\* C8, in a step: the admin and the whitelist change only in an admin
\* operation sent by the admin of the state the step starts in.
C8_OnlyAdminChanges ==
    (admin' # admin \/ whitelistedRelayers' # whitelistedRelayers) =>
        /\ lastCall'.op \in AdminOps
        /\ lastCall'.sender = admin

\* C8 (admin-only access): addRelayer, removeRelayer and transferOwnership
\* fail for every caller other than the current admin and leave the admin
\* and the whitelist as they are; after a transfer the new admin is the one
\* who may call them and the previous one may not.
C8_AdminOnly == []C8_OnlyAdminCanCall /\ [][C8_OnlyAdminChanges]_vars

\* C8 witness: ownership went to another address, which is the admin now,
\* and the previous admin is turned down.
C8_Witness ==
    /\ lastCall.op = "transferOwnership"
    /\ lastCall.sender # lastCall.newAdmin
    /\ admin = lastCall.newAdmin
    /\ addRelayerRevert(lastCall.sender, lastCall.sender)
           = "Privax: Caller is not the admin"

\* C9 (zero-amount deposit): a deposit of 0 reverts on the first require, in
\* every state and for every sender and commitment, so before the token is
\* called; no deposit that took effect and no deposit event has amount 0.
C9_ZeroAmountDeposit ==
    /\ \A sender \in Users, c \in LedgerCommitments :
           depositRevert(sender, 0, c)
               = "Privax: Deposit amount must be greater than zero"
    /\ lastCall.op = "deposit" => lastCall.amount > 0
    /\ \A k \in DOMAIN events :
           events[k].name = "DepositOccurred" => events[k].amount > 0

\* C9 witness: the pool has taken deposits, a sender holds tokens, and the
\* sender's deposit of 0 is turned down for the amount.
C9_Witness ==
    /\ Len(EventsNamed("DepositOccurred")) >= 1
    /\ \E sender \in Users :
           /\ balanceOf(balances, sender) > 0
           /\ depositRevert(sender, 0, 1)
                  = "Privax: Deposit amount must be greater than zero"

\* C10 (successful deposit effect): the last event after a deposit that took
\* effect is a deposit event that carries the sender, the amount, the
\* commitment, the index of the commitment's leaf and the new root.
C10_DepositEvent ==
    lastCall.op = "deposit" =>
        LET e == events[Len(events)]
        IN  /\ e.name = "DepositOccurred"
            /\ e.user = lastCall.sender
            /\ e.amount = lastCall.amount
            /\ e.commitment = lastCall.commitment
            /\ "leafIndex" \in DOMAIN e
            /\ e.leafIndex = Len(EventsNamed("DepositOccurred")) - 1
            /\ "newRoot" \in DOMAIN e
            /\ e.newRoot = CurrentRoot

\* C11 (successful withdraw effect): a withdraw that takes effect puts the
\* nullifier hash of publicInputs[1] into the ledger's nullifier set, moves
\* exactly `amount` from the pool to the recipient and emits one withdrawal
\* event with that nullifier hash, recipient and amount.
C11_WithdrawEffect ==
    [][(lastCall'.op = "withdraw" /\ events' # events) =>
           LET n == lastCall'.publicInputs[2]
               r == lastCall'.recipient
               a == lastCall'.amount
           IN  /\ balanceOf(balances', PoolAddress) = balanceOf(balances, PoolAddress) - a
               /\ balanceOf(balances', r) = balanceOf(balances, r) + a
               /\ events' = Append(events, WithdrawalOccurred(n, r, TokenAddress, a))
               /\ "nullifierSet" \in DOMAIN PrivaxProtocolStorage'
               /\ n \in PrivaxProtocolStorage'.nullifierSet]_vars

\* The three defects withdraw looks for before anything else, in its order.
FailsValidation(c) ==
    \/ c.amount = 0
    \/ c.recipient = ZeroAddress
    \/ Len(c.publicInputs) # REQUIRED_PUBLIC_INPUTS_COUNT

\* The reason withdraw gives for the first of the three defects of a call.
ValidationReason(c) ==
    CASE c.amount = 0 -> "Privax: Withdrawal amount must be greater than zero"
      [] c.recipient = ZeroAddress -> "Privax: Recipient cannot be the zero address"
      [] OTHER -> "Privax: Incorrect number of public inputs"

\* C12, the ledger in a state where the verifier answers false: every
\* withdraw call reverts, and a call that passes the checks before the
\* verifier reverts with 'Invalid ZK proof', whatever the pool holds.
C12_LedgerRejects ==
    ~verificationResult =>
        \A c \in WithdrawCalls :
            /\ CallRevert(c) # NoRevert
            /\ (~FailsValidation(c) /\ ~ArgumentsMismatch(c)) =>
                   CallRevert(c) = "Privax: Invalid ZK proof"

\* C12, the ledger in a step: a withdraw takes effect (moves funds, emits an
\* event) only in a state where the verifier answers true.
C12_LedgerPaysOnlyVerified ==
    (lastCall'.op = "withdraw" /\ events' # events) => verificationResult

\* C12, the reference flow: for every spent set and every call that passed
\* the spent check, the verifier's answer false makes withdraw throw
\* 'Invalid proof' with the spent set as it was, so the same call with the
\* answer true still returns and marks the nullifier.
C12_FlowRejects ==
    \A spent \in SUBSET FlowNullifiers, n \in FlowNullifiers,
       publicSignals \in FlowPublicSignals :
        withdrawCheck(spent, n).ok =>
            LET r == withdrawSettle(spent, n, publicSignals, FALSE)
            IN  /\ ~r.ok
                /\ r.err = "Invalid proof"
                /\ r.spent = spent
                /\ withdrawCheck(r.spent, n).ok
                /\ withdrawSettle(r.spent, n, publicSignals, TRUE).ok

\* C12 (invalid proof): when the verifier returns false, withdraw fails with
\* the invalid-proof error, no funds leave the pool, no event is emitted and
\* no nullifier is marked spent, in the ledger contract and in the reference
\* flow's withdraw.
C12_InvalidProof ==
    /\ [](C12_LedgerRejects /\ C12_FlowRejects)
    /\ [][C12_LedgerPaysOnlyVerified]_vars

\* C12 witness: the pool is funded, the verifier answers false, and a call
\* that a true answer would let through is turned down for the proof.
C12_Witness ==
    /\ ~verificationResult
    /\ balanceOf(balances, PoolAddress) > 0
    /\ \E c \in ConsistentCalls :
           /\ c.recipient \in Users
           /\ c.amount <= balanceOf(balances, PoolAddress)
           /\ CallRevert(c) = "Privax: Invalid ZK proof"

\* C13 (pre-mutation validation of withdraw): a call with amount 0, the zero
\* recipient or a number of public inputs other than 5 reverts with the
\* reason of that defect in every state, so whatever the verifier would
\* answer and whatever the pool holds; no withdraw that took effect had one.
C13_PreValidation ==
    /\ \A c \in WithdrawCalls : FailsValidation(c) => CallRevert(c) = ValidationReason(c)
    /\ lastCall.op = "withdraw" => ~FailsValidation(lastCall)

\* C13 witness: the verifier rejects every proof and the pool is funded, and
\* calls with each of the three defects are turned down for the defect.
C13_Witness ==
    /\ ~verificationResult
    /\ balanceOf(balances, PoolAddress) > 0
    /\ \A reason \in {"Privax: Withdrawal amount must be greater than zero",
                      "Privax: Recipient cannot be the zero address",
                      "Privax: Incorrect number of public inputs"} :
           \E c \in WithdrawCalls : CallRevert(c) = reason

\* The reason deposit and withdraw give when the balance after the token
\* transfer is not the balance before plus the amount.
TransferFailed == "Privax: Token transfer failed or incorrect amount"

\* C23, in a state: a deposit whose token transfer goes through and leaves
\* the pool's balance at anything other than the balance before plus the
\* amount reverts with TransferFailed; a withdraw whose transfer does not
\* raise the recipient's balance by the amount reverts, with TransferFailed
\* when nothing before the transfer turns it down.
C23_ChecksDelta ==
    /\ \A sender \in Users, amount \in 1 .. MaxAmount, c \in LedgerCommitments :
           LET moved == TokenTransfer(balances, sender, PoolAddress, amount)
           IN  (/\ moved.ok
                /\ balanceOf(moved.balances, PoolAddress)
                       # balanceOf(balances, PoolAddress) + amount) =>
                   depositRevert(sender, amount, c) = TransferFailed
    /\ \A c \in WithdrawCalls :
           LET moved == TokenTransfer(balances, PoolAddress, c.recipient, c.amount)
           IN  (/\ moved.ok
                /\ balanceOf(moved.balances, c.recipient)
                       # balanceOf(balances, c.recipient) + c.amount) =>
                   /\ CallRevert(c) # NoRevert
                   /\ (/\ ~FailsValidation(c)
                       /\ ~ArgumentsMismatch(c)
                       /\ verificationResult) => CallRevert(c) = TransferFailed

\* C23, in a step: a deposit that takes effect has raised the pool's balance
\* by its amount, a withdraw that takes effect has raised the recipient's by
\* its amount, and when no event is emitted no balance has changed.
C23_EffectOnlyOnExactTransfer ==
    /\ (lastCall'.op = "deposit" /\ events' # events) =>
           balanceOf(balances', PoolAddress)
               = balanceOf(balances, PoolAddress) + lastCall'.amount
    /\ (lastCall'.op = "withdraw" /\ events' # events) =>
           balanceOf(balances', lastCall'.recipient)
               = balanceOf(balances, lastCall'.recipient) + lastCall'.amount
    /\ events' = events =>
           /\ balances' = balances
           /\ admin' = admin
           /\ whitelistedRelayers' = whitelistedRelayers

\* C23 (transfer failure): a deposit or a withdraw whose token transfer does
\* not change the receiving balance by exactly the amount fails with
\* TransferFailed, emits no event and leaves the ledger as it was.
C23_TransferFailure == []C23_ChecksDelta /\ [][C23_EffectOnlyOnExactTransfer]_vars

\* C23 witness: the token keeps a fee on every transfer, a user holds enough
\* tokens, and the user's deposit is turned down for the balance check.
C23_Witness ==
    /\ tokenFee > 0
    /\ lastCall.op # "constructor"
    /\ \E sender \in Users :
           /\ balanceOf(balances, sender) >= MaxAmount
           /\ depositRevert(sender, MaxAmount, 1) = TransferFailed

\* Whether the last relayer event of a log that names `a` is an addition.
WhitelistedBy(log, a) ==
    LET ks == {k \in DOMAIN log :
                  /\ log[k].name \in {"RelayerAdded", "RelayerRemoved"}
                  /\ log[k].relayerAddress = a}
    IN  /\ ks # {}
        /\ log[CHOOSE k \in ks : \A j \in ks : j <= k].name = "RelayerAdded"

\* C27, in a state: an address is whitelisted exactly when it was added and
\* not removed since; and where an addition of r is followed at once by the
\* removal of r, every address is whitelisted after the two exactly when it
\* was before them.
C27_WhitelistFollowsEvents ==
    /\ \A a \in Address : isRelayer(a) = WhitelistedBy(events, a)
    /\ \A k \in 1 .. (Len(events) - 1) :
           (/\ events[k].name = "RelayerAdded"
            /\ events[k + 1] = RelayerRemoved(events[k].relayerAddress)) =>
               \A a \in Address :
                   WhitelistedBy(SubSeq(events, 1, k + 1), a)
                       = WhitelistedBy(SubSeq(events, 1, k - 1), a)

\* C27, in a step: an addRelayer(r) that takes effect finds r off the
\* whitelist and puts r, and r alone, on it, so that removing r again would
\* give the whitelist back; a removeRelayer(r) that takes effect finds r on
\* it and takes r, and r alone, off; neither changes the admin or a balance.
C27_AddAndRemove ==
    /\ (lastCall'.op = "addRelayer" /\ events' # events) =>
           LET r == lastCall'.relayerAddress
           IN  /\ ~whitelistedRelayers[r]
               /\ whitelistedRelayers'[r]
               /\ whitelistedRelayers' = [whitelistedRelayers EXCEPT ![r] = TRUE]
               /\ [whitelistedRelayers' EXCEPT ![r] = FALSE] = whitelistedRelayers
               /\ admin' = admin
               /\ balances' = balances
    /\ (lastCall'.op = "removeRelayer" /\ events' # events) =>
           LET r == lastCall'.relayerAddress
           IN  /\ whitelistedRelayers[r]
               /\ ~whitelistedRelayers'[r]
               /\ whitelistedRelayers' = [whitelistedRelayers EXCEPT ![r] = FALSE]
               /\ admin' = admin
               /\ balances' = balances

\* C27 (relayer whitelist round-trip): after the admin's addRelayer(r) the
\* whitelist has gained exactly r, after a following removeRelayer(r) it is
\* what it was before the add, and neither operation changes the membership
\* of another address, the admin or the escrow.
C27_RelayerRoundTrip == []C27_WhitelistFollowsEvents /\ [][C27_AddAndRemove]_vars

\* C27 witness: one relayer was added and stays, another was added and
\* removed right after.
C27_Witness ==
    /\ Len(events) = 4
    /\ events[2].name = "RelayerAdded"
    /\ events[3].name = "RelayerAdded"
    /\ events[4] = RelayerRemoved(events[3].relayerAddress)
    /\ isRelayer(events[2].relayerAddress)
    /\ ~isRelayer(events[3].relayerAddress)

\* C28, in a state: right after deployment the admin is the deployer, the
\* whitelist is empty and the pool holds nothing; after a transfer that took
\* effect the admin is the address it named.
C28_AfterDeployment ==
    /\ lastCall.op = "constructor" =>
           /\ admin = Deployer
           /\ \A a \in Address : ~isRelayer(a)
           /\ balanceOf(balances, PoolAddress) = 0
           /\ events = <<AdminChanged(ZeroAddress, Deployer)>>
    /\ lastCall.op = "transferOwnership" =>
           /\ admin = lastCall.newAdmin
           /\ events[Len(events)].name = "AdminChanged"
           /\ events[Len(events)].newAdmin = admin

\* C28, in a step: a transferOwnership(a) that takes effect was sent by the
\* admin, makes a the admin and changes neither the whitelist nor a balance
\* nor the verifier.
C28_TransferFrame ==
    (lastCall'.op = "transferOwnership" /\ events' # events) =>
        /\ lastCall'.sender = admin
        /\ admin' = lastCall'.newAdmin
        /\ events' = Append(events, AdminChanged(admin, lastCall'.newAdmin))
        /\ whitelistedRelayers' = whitelistedRelayers
        /\ balances' = balances
        /\ verificationResult' = verificationResult

\* C28 (ownership transfer): a successful transferOwnership(a) by the admin
\* sets admin to a and changes nothing else; right after deployment the
\* admin is the deployer and the whitelist is empty.
C28_OwnershipTransfer == []C28_AfterDeployment /\ [][C28_TransferFrame]_vars

\* C28 witness: with a relayer whitelisted and the pool funded, ownership
\* has gone from the deployer to another address.
C28_Witness ==
    /\ lastCall.op = "transferOwnership"
    /\ lastCall.sender = Deployer
    /\ admin # Deployer
    /\ \E a \in Address : isRelayer(a)
    /\ balanceOf(balances, PoolAddress) > 0

\* The events of one kind that carry the given amount.
EventsOfAmount(name, a) ==
    SelectSeq(events, LAMBDA e : e.name = name /\ e.amount = a)

\* The positions of the successful withdrawals in the event log.
WithdrawalPositions == {k \in DOMAIN events : events[k].name = "WithdrawalOccurred"}

\* C33 (every withdrawal is backed by a deposit): the successful withdrawals
\* can be matched to distinct earlier successful deposits of exactly their
\* amount, so that for every amount there have been at most as many
\* withdrawals as deposits of it, and no two withdrawals carry the same
\* nullifier hash, which would draw twice against one note.
C33_WithdrawalsBacked ==
    /\ \A a \in Amounts :
           Len(EventsOfAmount("WithdrawalOccurred", a))
               <= Len(EventsOfAmount("DepositOccurred", a))
    /\ \A j, k \in WithdrawalPositions :
           j # k => events[j].nullifierHash # events[k].nullifierHash

\* C39, in a state: the admin is not the zero address, and a call of
\* transferOwnership(0) reverts for every sender, for the admin with the
\* reason of the zero-address check.
C39_ZeroAdminRefused ==
    /\ admin # ZeroAddress
    /\ \A sender \in Users :
           transferOwnershipRevert(sender, ZeroAddress) # NoRevert
    /\ transferOwnershipRevert(admin, ZeroAddress)
           = "Privax: New admin cannot be the zero address"

\* C39, in a step: transferOwnership(0) changes nothing, the admin least of
\* all; the admin changes only to a non-zero address, named by a successful
\* transferOwnership.
C39_AdminFrame ==
    /\ \A sender \in Users :
           transferOwnership(sender, ZeroAddress) => UNCHANGED ledgerVars
    /\ admin' # admin =>
           /\ admin' # ZeroAddress
           /\ lastCall'.op = "transferOwnership"
           /\ lastCall'.newAdmin = admin'

\* C39 (the admin is never the zero address).
C39_AdminNeverZero == []C39_ZeroAdminRefused /\ [][C39_AdminFrame]_vars

\* C39 witness: the ownership has been transferred, and the new admin's
\* transferOwnership(0) is refused by the zero-address check.
C39_Witness ==
    /\ lastCall.op = "transferOwnership"
    /\ admin = lastCall.newAdmin
    /\ admin # Deployer
    /\ transferOwnershipRevert(admin, ZeroAddress)
           = "Privax: New admin cannot be the zero address"

\* The relayer events the ledger has emitted for address a, in order.
RelayerEvents(a) ==
    SelectSeq(events, LAMBDA e : e.name \in {"RelayerAdded", "RelayerRemoved"}
                                    /\ e.relayerAddress = a)

\* The events of a sequence alternate, RelayerAdded first.
Alternates(log) ==
    \A k \in DOMAIN log :
        log[k].name = IF k % 2 = 1 THEN "RelayerAdded" ELSE "RelayerRemoved"

\* C40, in a state: for the admin, addRelayer fails on the zero address and
\* on an address already whitelisted, removeRelayer fails on an address not
\* whitelisted, and each succeeds otherwise; the zero address is not
\* whitelisted; the RelayerAdded and RelayerRemoved events of one address
\* alternate, RelayerAdded first, the address being whitelisted after an odd
\* number of them.
C40_StrictWhitelist ==
    /\ ~isRelayer(ZeroAddress)
    /\ addRelayerRevert(admin, ZeroAddress) = "Privax: Invalid relayer address"
    /\ \A a \in Address \ {ZeroAddress} :
           /\ addRelayerRevert(admin, a)
                  = IF isRelayer(a) THEN "Privax: Relayer already whitelisted" ELSE NoRevert
    /\ \A a \in Address :
           /\ removeRelayerRevert(admin, a)
                  = IF isRelayer(a) THEN NoRevert ELSE "Privax: Relayer not whitelisted"
           /\ Alternates(RelayerEvents(a))
           /\ isRelayer(a) <=> Len(RelayerEvents(a)) % 2 = 1

\* C40, in a step: a call of addRelayer or removeRelayer that fails leaves
\* the whitelist and the events as they are.
C40_FailureFrame ==
    \A sender \in Users, a \in Address :
        /\ (addRelayerRevert(sender, a) # NoRevert /\ addRelayer(sender, a))
              => UNCHANGED <<whitelistedRelayers, events>>
        /\ (removeRelayerRevert(sender, a) # NoRevert /\ removeRelayer(sender, a))
              => UNCHANGED <<whitelistedRelayers, events>>

\* C40 (whitelist operations are strict).
C40_WhitelistStrict == []C40_StrictWhitelist /\ [][C40_FailureFrame]_vars

\* C40 witness: a relayer has been added, removed and added again, and
\* adding it once more is refused as already whitelisted.
C40_Witness ==
    \E a \in Address :
        /\ Len(RelayerEvents(a)) = 3
        /\ isRelayer(a)
        /\ addRelayerRevert(admin, a) = "Privax: Relayer already whitelisted"

---------------------------------------------------------------------------
(* Properties of the Merkle tree (checked under TreeSpec) *)

\* The proof of a leaf folded by the circuit's rule gives the root.
ProofFoldsToRoot(t, index) ==
    LET p == generateProof(t, index).result
    IN  MerkleProofVerifies(t.levels, t.leaves[index],
                            [k \in 1 .. t.levels |-> toField(p.pathElements[k])],
                            p.pathIndices, toField(getRoot(t)))

\* C6 (Merkle round-trip): for every index below the fill pointer, the leaf
\* folded up the siblings of generateProof(index), on the left when the
\* direction bit is 0 and on the right when it is 1, gives getRoot().
C6_MerkleRoundTrip ==
    \A index \in 0 .. (merkleTree.filled - 1) : ProofFoldsToRoot(merkleTree, index)

\* C7 (capacity boundary): the fill pointer never passes 2^Depth; below it
\* an insert succeeds and returns the fill pointer; at it every insert fails
\* with "Tree is full" and leaves the leaves, the fill pointer and the root
\* as they were; and an insert that failed found the tree full.
C7_CapacityBoundary ==
    /\ merkleTree.capacity = 2 ^ Depth
    /\ merkleTree.filled <= 2 ^ Depth
    /\ \A c \in Commitments :
           LET r == insert(merkleTree, c)
           IN  IF merkleTree.filled < 2 ^ Depth
               THEN /\ r.ok
                    /\ r.result = merkleTree.filled
                    /\ r.tree.filled = merkleTree.filled + 1
                    /\ r.tree.leaves[merkleTree.filled] = toField(c)
               ELSE /\ ~r.ok
                    /\ r.err = "Tree is full"
                    /\ r.tree = merkleTree
                    /\ getRoot(r.tree) = getRoot(merkleTree)
    /\ (treeLast.op = "insert" /\ ~treeLast.ok) =>
           /\ treeLast.err = "Tree is full"
           /\ merkleTree.filled = 2 ^ Depth

\* C7 witness: 2^Depth inserts have succeeded and one more has failed.
C7_Witness ==
    /\ merkleTree.filled = 2 ^ Depth
    /\ treeLast.op = "insert"
    /\ ~treeLast.ok

RECURSIVE ZeroConstant(_)
\* zero[0] = 0 and zero[i] = H2(zero[i-1], zero[i-1]).
ZeroConstant(i) ==
    IF i = 0 THEN Fe(0) ELSE Poseidon(<<ZeroConstant(i - 1), ZeroConstant(i - 1)>>)

RECURSIVE NodeHash(_, _, _)
\* The node at position pos of a level in the full 2^levels-leaf array whose
\* first `filled` entries are the inserted commitments and whose other
\* entries are zero[0], with parent = H2(left, right) at every level.
NodeHash(t, level, pos) ==
    IF level = 0
    THEN IF pos < t.filled THEN t.leaves[pos] ELSE ZeroConstant(0)
    ELSE Poseidon(<<NodeHash(t, level - 1, 2 * pos), NodeHash(t, level - 1, 2 * pos + 1)>>)

\* The position, at a level, of the node on the path from leaf `index` up.
PathPos(index, level) == index \div (2 ^ level)

\* The position of the sibling of the node at position pos.
SiblingPos(pos) == IF pos % 2 = 0 THEN pos + 1 ELSE pos - 1

\* C16 (direction bits): at every level generateProof(index) returns bit 0
\* when the node on the path is a left child (even position) and 1 when it
\* is a right child.
C16_DirectionBits ==
    \A index \in 0 .. (merkleTree.filled - 1) :
        LET p == generateProof(merkleTree, index).result
        IN  \A i \in 0 .. (merkleTree.levels - 1) :
                p.pathIndices[i + 1] = PathPos(index, i) % 2

\* C17 (sibling values): at every level i generateProof(index) returns the
\* value of the sibling, at level i, of the node on the path: the hash of the
\* sibling subtree, which is the level's zero constant when the subtree holds
\* no inserted leaf.
C17_SiblingValues ==
    \A index \in 0 .. (merkleTree.filled - 1) :
        LET p == generateProof(merkleTree, index).result
        IN  \A i \in 0 .. (merkleTree.levels - 1) :
                toField(p.pathElements[i + 1])
                    = NodeHash(merkleTree, i, SiblingPos(PathPos(index, i)))

\* getRoot() of the TypeScript class is the reference fold of the leaves.
RootIsReferenceFoldTs ==
    getRoot(merkleTree) = ToString(NodeHash(merkleTree, merkleTree.levels, 0))

\* getRoot() of merkleTree.js returns the reference fold of the leaves.
RootIsReferenceFoldJs ==
    LET r == getRootJs(merkleTree)
    IN  r.ok /\ r.result = ToString(NodeHash(merkleTree, merkleTree.levels, 0))

\* C18 (root as reference fold): for every fill count and every sequence of
\* leaves, getRoot() is the Merkle root of the full array of 2^Depth leaves,
\* in both implementations of the tree.
C18_RootIsReferenceFold == RootIsReferenceFoldTs /\ RootIsReferenceFoldJs

\* C19 (empty-tree root): on a tree with no inserts getRoot() returns
\* zero[Depth], in the TypeScript class and in merkleTree.js.
C19_EmptyTreeRoot ==
    merkleTree.filled = 0 =>
        /\ getRoot(merkleTree) = ToString(ZeroConstant(Depth))
        /\ getRootJs(merkleTree).ok
        /\ getRootJs(merkleTree).result = ToString(ZeroConstant(Depth))

\* generateProof(index) fails with 'Leaf does not exist' exactly when
\* index >= filled.
FailsOnUnknownLeafOnly(r, index) ==
    IF index >= merkleTree.filled
    THEN ~r.ok /\ r.err = "Leaf does not exist"
    ELSE r.ok

\* C20 (unknown leaf): generateProof(index) with index >= filled fails with
\* 'Leaf does not exist' and with index < filled never fails, in both
\* implementations; a generateProof step leaves the tree as it is.
C20_UnknownLeaf ==
    /\ \A index \in Indices :
           /\ FailsOnUnknownLeafOnly(generateProof(merkleTree, index), index)
           /\ FailsOnUnknownLeafOnly(generateProofJs(merkleTree, index), index)
    /\ treeLast.op \in {"generateProof", "js.generateProof"} =>
           FailsOnUnknownLeafOnly(treeLast, treeLast.index)

\* C21, in a state: an insert that succeeds returns the fill pointer, stores
\* its commitment in that slot, moves the fill pointer up by one and keeps
\* every leaf below it; the insert that succeeded last returned the index of
\* the top leaf; and every leaf below the fill pointer is an inserted
\* commitment.
C21_InsertAppends ==
    /\ \A c \in Commitments :
           LET r == insert(merkleTree, c)
           IN  r.ok =>
                   /\ r.result = merkleTree.filled
                   /\ r.tree.filled = merkleTree.filled + 1
                   /\ r.tree.leaves[r.result] = toField(c)
                   /\ \A k \in 0 .. (merkleTree.filled - 1) :
                          r.tree.leaves[k] = merkleTree.leaves[k]
    /\ (treeLast.op = "insert" /\ treeLast.ok) => treeLast.result = merkleTree.filled - 1
    /\ \A k \in 0 .. (merkleTree.filled - 1) :
           merkleTree.leaves[k] \in {toField(c) : c \in Commitments}

\* C21, in a step: the fill pointer stays or grows by one, it grows only in
\* an insert that succeeds and returns the old fill pointer, and no leaf
\* below the old fill pointer changes.
C21_LeavesKept ==
    /\ merkleTree'.filled \in {merkleTree.filled, merkleTree.filled + 1}
    /\ \A k \in 0 .. (merkleTree.filled - 1) :
           merkleTree'.leaves[k] = merkleTree.leaves[k]
    /\ merkleTree'.filled = merkleTree.filled + 1 =>
           /\ treeLast'.op = "insert"
           /\ treeLast'.ok
           /\ treeLast'.result = merkleTree.filled
    /\ merkleTree'.filled = merkleTree.filled => merkleTree' = merkleTree

\* C21 (append-only leaves): the k-th insert that succeeds returns k and
\* stores its commitment at leaves[k], the fill pointer grows by one per
\* such insert, and no later operation changes a leaf below the fill
\* pointer.
C21_AppendOnlyLeaves == []C21_InsertAppends /\ [][C21_LeavesKept]_vars

\* C21 witness: three different-looking inserts have succeeded, in the order
\* the leaves show, and a proof has been generated since.
C21_Witness ==
    /\ merkleTree.filled = 3
    /\ merkleTree.leaves[0] = Fe(1)
    /\ merkleTree.leaves[1] = Fe(2)
    /\ merkleTree.leaves[2] = Fe(1)
    /\ treeLast.op = "generateProof"
    /\ treeLast.ok

\* The values offered to the predicate as a sibling: every node of the tree
\* and one value that is no node of it.
SiblingCandidates(t) ==
    UNION {{NodeHash(t, l, pos) : pos \in 0 .. (t.capacity \div (2 ^ l) - 1)} :
              l \in 0 .. (t.levels - 1)}
        \cup {Fe(9)}

\* The direction bits of the path from leaf `index` up: 0 for a left child.
PathBits(t, index) == [i \in 1 .. t.levels |-> PathPos(index, i - 1) % 2]

\* The Merkle part of the predicate for the leaf at `index` with the given
\* siblings, the leaf's own direction bits and the root of the tree.
PathSatisfies(t, index, pathElements) ==
    MerkleProofVerifies(t.levels, t.leaves[index], pathElements, PathBits(t, index),
                        toField(getRoot(t)))

\* C30 (predicate rejects a wrong path): for every leaf of the tree and
\* every assignment that satisfies the predicate for it, supplying at some
\* level a sibling other than the one generateProof(index) returns for that
\* level leaves the predicate unsatisfied.
C30_WrongPathRejected ==
    \A index \in 0 .. (merkleTree.filled - 1) :
        LET p == generateProof(merkleTree, index).result
            V == SiblingCandidates(merkleTree)
        IN  \A pathElements \in [1 .. merkleTree.levels -> V] :
                PathSatisfies(merkleTree, index, pathElements) =>
                    \A i \in 1 .. merkleTree.levels, v \in V :
                        v # toField(p.pathElements[i]) =>
                            ~PathSatisfies(merkleTree, index,
                                           [pathElements EXCEPT ![i] = v])

\* The values offered to the predicate as a direction bit: 0, 1, 2 .. MaxBit
\* and -1, which stands for the field's largest element.
BitValues == -1 .. MaxBit

\* The leaf values of the tree, inserted or zero.
LeafValues(t) == {t.leaves[pos] : pos \in 0 .. (t.capacity - 1)}

\* The assignments of direction bits in which some bit is not binary.
NonBinaryPaths(t) ==
    {pathIndices \in [1 .. t.levels -> BitValues] :
        \E i \in 1 .. t.levels : pathIndices[i] \notin {0, 1}}

\* C32 (direction bits are binary): no field value other than 0 and 1
\* satisfies the bit constraint, and the predicate is satisfied by no
\* assignment in which some direction bit is outside {0, 1}, whatever the
\* leaf and the siblings, the root being the tree's.
C32_NonBinaryBitRejected ==
    /\ \A b \in BitValues : BinaryConstraint(b) <=> b \in {0, 1}
    /\ \A leaf \in LeafValues(merkleTree), pathIndices \in NonBinaryPaths(merkleTree) :
           \A pathElements \in [1 .. merkleTree.levels -> SiblingCandidates(merkleTree)] :
               ~MerkleProofVerifies(merkleTree.levels, leaf, pathElements, pathIndices,
                                    toField(getRoot(merkleTree)))

\* C32 witness: two equal commitments have been inserted, and an assignment
\* with a non-binary bit folds to the tree's root, so that the bit
\* constraint alone is what leaves the predicate unsatisfied.
C32_Witness ==
    /\ merkleTree.filled = 2
    /\ merkleTree.leaves[0] = merkleTree.leaves[1]
    /\ \E pathIndices \in NonBinaryPaths(merkleTree) :
           \E pathElements \in [1 .. merkleTree.levels -> SiblingCandidates(merkleTree)] :
               /\ toField(getRoot(merkleTree))
                      = currentHashes(merkleTree.levels, merkleTree.leaves[0],
                                      pathElements, pathIndices)
               /\ ~MerkleProofVerifies(merkleTree.levels, merkleTree.leaves[0],
                                       pathElements, pathIndices,
                                       toField(getRoot(merkleTree)))

\* C38 (the two implementations are observationally equivalent): after the
\* same inserts, which are the same code in both, getRoot() of merkleTree.js
\* returns what getRoot() of the TypeScript class returns, and
\* generateProof(index) of merkleTree.js returns or throws what that of the
\* TypeScript class does, for every index.
C38_ImplementationsEquivalent ==
    /\ getRootJs(merkleTree) = [ok |-> TRUE, result |-> getRoot(merkleTree)]
    /\ \A index \in Indices :
           generateProofJs(merkleTree, index) = generateProof(merkleTree, index)

---------------------------------------------------------------------------
(* Properties of the reference flow (checked under FlowSpec) *)

\* The callers whose withdraw call has passed the spent check for n and has
\* not settled yet.
InFlight(n) ==
    {c \in Callers : calls[c].pc # "idle" /\ calls[c].nullifierHash = n}

\* C14, in a state: a nullifier hash for which withdraw has returned is in the
\* spent set; withdraw for a spent hash throws at the check, and so does
\* generateWithdrawalProof for a deposited note with that hash; a withdraw
\* that threw 'Deposit already withdrawn' had not called the verifier.
C14_SpentIsRejected ==
    /\ \A n \in FlowNullifiers : returned[n] > 0 => n \in spentNullifiers
    /\ \A n \in spentNullifiers :
           withdrawCheck(spentNullifiers, n)
               = [ok |-> FALSE, err |-> "Deposit already withdrawn"]
    /\ \A amount \in FlowAmounts, secret \in FlowSecrets,
          nullifierSecret \in FlowNullifierSecrets, a \in FlowAddresses,
          index \in Indices :
           (/\ generateCommitment(amount, secret, nullifierSecret) \in DOMAIN deposits
            /\ generateNullifierHash(nullifierSecret) \in spentNullifiers) =>
               generateWithdrawalProof(amount, secret, nullifierSecret, a,
                                       ToString(Fe(1)), index)
                   = [ok |-> FALSE, err |-> "Deposit already withdrawn"]
    /\ (flowLast.op = "withdraw" /\ ~flowLast.ok
            /\ flowLast.err = "Deposit already withdrawn") =>
           /\ ~flowLast.verifierCalled
           /\ flowLast.nullifierHash \in spentNullifiers

\* C14, in a step: a withdraw call gets past the spent check only for a hash
\* for which no withdraw has returned yet, and a call that is turned down
\* leaves the spent set as it was.
C14_NoLaterCallPasses ==
    /\ \A c \in Callers :
           (calls[c] = Idle /\ calls'[c] # Idle) =>
               /\ returned[calls'[c].nullifierHash] = 0
               /\ calls'[c].nullifierHash \notin spentNullifiers
    /\ (flowLast'.op = "withdraw" /\ ~flowLast'.ok) => spentNullifiers' = spentNullifiers

\* C14 (reference flow single spend): once withdraw(n, ...) has returned,
\* every withdraw(n, ...) called afterwards throws 'Deposit already
\* withdrawn' without calling the verifier, generateWithdrawalProof for a
\* note with nullifier hash n throws too, and the rejected calls leave the
\* spent set unchanged.
C14_SingleSpend == []C14_SpentIsRejected /\ [][C14_NoLaterCallPasses]_vars

\* C14 witness: withdraw has returned once for a nullifier hash and a later
\* call for it has been turned down.
C14_Witness ==
    /\ flowLast.op = "withdraw"
    /\ ~flowLast.ok
    /\ flowLast.err = "Deposit already withdrawn"
    /\ returned[flowLast.nullifierHash] = 1
    /\ InFlight(flowLast.nullifierHash) = {}

\* C15 (concurrent withdrawals): of the withdraw calls in flight for one
\* nullifier hash at most one has found it unspent, and withdraw returns at
\* most once for it.
C15_ConcurrentWithdrawals ==
    \A n \in FlowNullifiers :
        /\ Cardinality(InFlight(n)) <= 1
        /\ returned[n] <= 1

\* C22 (nullifier set is append-only): in every step of the flow (a deposit,
\* a proof generation, a withdraw that is called, resumes, returns or throws)
\* every nullifier hash in the spent set stays in it.
C22_AppendOnly == [][spentNullifiers \subseteq spentNullifiers']_vars

\* C22 witness: both nullifier hashes are spent, notes are deposited, and a
\* withdraw for a hash that is in the set has since failed on its proof.
C22_Witness ==
    /\ spentNullifiers = FlowNullifiers
    /\ merkleTree.filled > 0
    /\ flowLast.op = "withdraw"
    /\ ~flowLast.ok
    /\ flowLast.err = "Invalid proof"
    /\ flowLast.nullifierHash \in spentNullifiers

\* What generateWithdrawalProof answers for the note recorded under a
\* commitment, asked with the note's own values and index.
RegenerateProof(commitment) ==
    LET d == deposits[commitment]
    IN  generateWithdrawalProof(d.amount, d.secret, d.nullifierSecret, d.recipient,
                                ToString(Fe(1)), d.index)

\* C24 (recovery from a stale root): every deposited note whose nullifier
\* hash is not spent stays withdrawable: asking again for its path and the
\* current root succeeds and gives inputs built against the root of the tree
\* as it is now.
C24_StaleRootRecovery ==
    \A commitment \in DOMAIN deposits :
        deposits[commitment].nullifierHash \notin spentNullifiers =>
            /\ RegenerateProof(commitment).ok
            /\ RegenerateProof(commitment).result.merkleRoot = getRoot(merkleTree)

\* C25 (notes are not retained): no record of the deposits store has a
\* secret or a nullifierSecret field, no leaf of the tree is a secret, and
\* the ledger's storage has no such field either.
C25_NotesNotRetained ==
    /\ \A commitment \in DOMAIN deposits :
           DOMAIN deposits[commitment] \cap {"secret", "nullifierSecret"} = {}
    /\ \A k \in DOMAIN merkleTree.leaves :
           merkleTree.leaves[k]
               \notin {toField(x) : x \in FlowSecrets \cup FlowNullifierSecrets}
    /\ DOMAIN PrivaxProtocolStorage \cap {"secret", "nullifierSecret"} = {}

\* A step in which a deposit has inserted its commitment.
DepositInserted == flowLast' # flowLast /\ flowLast'.op = "deposit" /\ flowLast'.ok

\* C29 (root changes only on deposit): in every step other than a deposit
\* that inserts (a generateWithdrawalProof, which asks for a path and the
\* root; a deposit that fails on the full tree; a withdraw that is called,
\* resumes, returns or throws) the tree is as it was and getRoot() of either
\* implementation answers as before; a deposit that inserts adds one leaf.
C29_RootChangesOnlyOnDeposit ==
    [][/\ ~DepositInserted =>
              /\ merkleTree' = merkleTree
              /\ getRoot(merkleTree') = getRoot(merkleTree)
              /\ getRootJs(merkleTree') = getRootJs(merkleTree)
       /\ DepositInserted => merkleTree'.filled = merkleTree.filled + 1]_vars

\* C29 witness: the tree holds leaves, so its root is not the empty tree's,
\* and a withdraw has returned since.
C29_Witness ==
    /\ merkleTree.filled = 2
    /\ getRoot(merkleTree) # ToString(calculateZeros(Depth))
    /\ flowLast.op = "withdraw"
    /\ flowLast.ok

\* C34 (withdraw marks the verified nullifier): a withdraw call passes the
\* spent check only if the nullifier hash carried in its public signals
\* (publicSignals[1]) is unspent, and a call that returns has marked exactly
\* that nullifier hash spent, whatever nullifierHash argument was passed.
C34_MarksVerifiedNullifier ==
    [][\A caller \in Callers :
           /\ (calls[caller] = Idle /\ calls'[caller] # Idle)
                 => calls'[caller].publicSignals[2] \notin spentNullifiers
           /\ (calls[caller].pc = "verify" /\ calls'[caller] = Idle
                  /\ returned' # returned)
                 => spentNullifiers'
                        = spentNullifiers \cup {calls[caller].publicSignals[2]}]_vars

\* C35 (the path is that of the note's own leaf): for every deposited note
\* and every index below the fill pointer, the recorded one or another, a
\* call of generateWithdrawalProof for the note with that index either fails
\* or returns the path of a leaf that holds the note's commitment.
C35_PathOfOwnLeaf ==
    \A commitment \in DOMAIN deposits, index \in 0 .. (merkleTree.filled - 1) :
        LET d == deposits[commitment]
            r == generateWithdrawalProof(d.amount, d.secret, d.nullifierSecret,
                                         d.recipient, ToString(Fe(1)), index)
        IN  r.ok =>
                \E k \in 0 .. (merkleTree.filled - 1) :
                    LET p == generateProofJs(merkleTree, k)
                    IN  /\ merkleTree.leaves[k] = toField(commitment)
                        /\ p.ok
                        /\ p.result.pathElements = r.result.pathElements
                        /\ p.result.pathIndices = r.result.pathIndices

---------------------------------------------------------------------------
(* Properties of note creation (checked under NoteSpec) *)

\* The amount of a note, read from its decimal string.
AmountOf(amount) == toField(amount)[1]

\* C26 (note creation rejects non-positive amounts): no deposit with an
\* amount <= 0 gets through: every record of the deposits store has a
\* positive amount, every inserted leaf commits to a positive amount, and
\* the deposit that returned last was not one of amount <= 0.
C26_NonPositiveAmountRejected ==
    /\ \A commitment \in DOMAIN deposits : AmountOf(deposits[commitment].amount) > 0
    /\ \A k \in 0 .. (merkleTree.filled - 1) : merkleTree.leaves[k][1][1] > 0
    /\ (flowLast.op = "deposit" /\ flowLast.ok) =>
           AmountOf(deposits[flowLast.result.commitment].amount) > 0

\* The commitment the predicate recomputes for a note given by its strings.
CircuitCommitment(amount, secret, nullifierSecret) ==
    commitmentHasher(toField(amount), toField(secret), toField(nullifierSecret))

\* C31 (tree-side and circuit-side hash relations agree): for every note the
\* commitment computed off-circuit is the one the predicate recomputes from
\* amount, secret and nullifierSecret in that order, and the nullifier hash
\* computed off-circuit satisfies the predicate's nullifier constraint; for
\* every deposit made, the stored commitment and nullifier hash are these
\* values and the leaf at the note's index is the commitment the predicate
\* folds.
C31_HashRelationsAgree ==
    /\ \A amount \in NoteAmounts, secret \in FlowSecrets,
          nullifierSecret \in FlowNullifierSecrets :
           /\ toField(generateCommitment(amount, secret, nullifierSecret))
                  = CircuitCommitment(amount, secret, nullifierSecret)
           /\ NullifierConstraint(toField(generateNullifierHash(nullifierSecret)),
                                  toField(nullifierSecret))
    /\ \A commitment \in DOMAIN deposits :
           LET d == deposits[commitment]
           IN  /\ toField(commitment)
                      = CircuitCommitment(d.amount, d.secret, d.nullifierSecret)
               /\ NullifierConstraint(toField(d.nullifierHash), toField(d.nullifierSecret))
               /\ merkleTree.leaves[d.index]
                      = CircuitCommitment(d.amount, d.secret, d.nullifierSecret)

\* C31 witness: a note whose amount, secret and nullifierSecret all differ
\* has been deposited and sits in the tree.
C31_Witness ==
    \E commitment \in DOMAIN deposits :
        LET d == deposits[commitment]
        IN  /\ d.amount # d.secret
            /\ d.secret # d.nullifierSecret
            /\ d.amount # d.nullifierSecret
            /\ merkleTree.leaves[d.index] = toField(commitment)

---------------------------------------------------------------------------
(* Properties of the interleaved flow (checked under ConcSpec and ProofSpec) *)

\* The tree as it was when `k` leaves had been inserted.
TreeAt(t, k) ==
    [t EXCEPT !.filled = k,
              !.leaves = [pos \in DOMAIN t.leaves |->
                             IF pos < k THEN t.leaves[pos] ELSE Fe(0)]]

\* generateProof(index) of the given MerkleTree class.
generateProofOf(class, t, index) ==
    IF class = "merkleTree.js" THEN generateProofJs(t, index) ELSE generateProof(t, index)

Inserted == {c \in Callers : depositing[c].pc \in {"insert", "generateNullifierHash"}}

\* C37, in a state: the deposit calls in flight that have received a leaf
\* index hold pairwise distinct indices, each of them the position of the
\* call's commitment in the leaves, and no stored record has the index of a
\* call in flight; for every stored record, deposits[c].index is a filled
\* position at which commitment c sits.
C37_IndicesInState ==
    /\ \A c \in Inserted :
           /\ depositing[c].index < merkleTree.filled
           /\ merkleTree.leaves[depositing[c].index] = toField(depositing[c].commitment)
           /\ \A other \in Inserted \ {c} : depositing[other].index # depositing[c].index
           /\ \A commitment \in DOMAIN deposits :
                  deposits[commitment].index # depositing[c].index
    /\ \A commitment \in DOMAIN deposits :
           /\ deposits[commitment].index < merkleTree.filled
           /\ merkleTree.leaves[deposits[commitment].index] = toField(commitment)

\* C37, in a step: a call that receives its index receives the fill pointer,
\* which then moves up by one and never back, so that no later call receives
\* that index; the record a call stores carries the index it received.
C37_IndicesInStep ==
    /\ merkleTree'.filled >= merkleTree.filled
    /\ \A c \in Callers :
           /\ (depositing[c].pc = "generateCommitment" /\ depositing'[c].pc = "insert")
                 => /\ depositing'[c].index = merkleTree.filled
                    /\ merkleTree'.filled = merkleTree.filled + 1
           /\ (depositing[c].pc = "generateNullifierHash" /\ depositing'[c] = Idle)
                 => deposits'[depositing[c].commitment].index = depositing[c].index

\* C37 (concurrent deposits never share a leaf).
C37_DistinctLeaves == []C37_IndicesInState /\ [][C37_IndicesInStep]_vars

\* C37 witness: two deposit calls are in flight, both past merkleTree.insert,
\* the one that inserted first not yet stored, next to a record stored
\* earlier.
C37_Witness ==
    /\ Inserted = Callers
    /\ depositing[1].index = 2
    /\ depositing[2].index = 1
    /\ depositing[1].commitment = depositing[2].commitment
    /\ \E commitment \in DOMAIN deposits : deposits[commitment].index = 0

=============================================================================
